---- MODULE Spec2Model ----
(***************************************************************************)
(* Seat-selection widget: the Selection Store (hooks/useSelection), its    *)
(* persistence in localStorage under the key 'selectedSeats', and the      *)
(* callers that drive it (seat click, clear button, adjacent-seat search). *)
(***************************************************************************)
EXTENDS Integers, Sequences, FiniteSets, TLC

\* ------------------------------------------------------------------ bounds
\* Seat ids of the venue the user can click on: 1..NumSeatIds.
NumSeatIds == 9
\* User events (click, clear, search, reload) handled in one behaviour.
MaxEvents == 3
\* Longest seat array found under the storage key at startup.
MaxStoredLen == 9

\* Events handled in one run of the store on a failing localStorage.
MaxFaultyEvents == 2

\* The cols of a row whose seats may be missing or sold.
MaxCols == 5

\* The longest row whose seats have mixed price tiers.
MaxPricedLen == 3

\* Price tiers run from 1 to MaxTier.
MaxTier == 2

\* Seats of a row wide enough for the centre penalty of its leftmost window to
\* outweigh half a price tier.
WideRowLen == 16

\* Events handled while the summary panel is shown.
MaxSummaryEvents == 2

\* Fetches of /venue.json issued by one mounted useVenue.
MaxFetches == 5

\* Seats of a venue drawn by the seat map.
MaxMapSeats == 3

\* Clicks, Enter and Escape presses handled by the store behind the seat map.
MaxMapEvents == 1

\* -------------------------------------------------------- program constants
\* `if (prev.length >= 8) return prev;`
MAX_SELECTED == 8
\* findAdjacentSeats accepts 2 <= count <= 8, so a found block has 2..8 seats.
MIN_ADJACENT == 2
MAX_ADJACENT == 8
\* `if (currentCount === 8)` of the toast effect of SelectionSummary.
LimitToastCount == 8
\* const MAX_RETRIES = 3 of useVenue.
MAX_RETRIES == 3

\* ------------------------------------------------------------------- seats
\* Seat['status']
Statuses == <<"available", "reserved", "sold", "held">>

StatusSet == {Statuses[i] : i \in 1..Len(Statuses)}

SeatIds == 1..NumSeatIds

\* A Seat value, reduced to the two fields the Selection Store reads.
Seat(i, st) == [id |-> i, status |-> st]

Seats == {Seat(i, st) : i \in SeatIds, st \in StatusSet}

AvailableSeats == {s \in Seats : s.status = "available"}

\* ------------------------------------------------------ JSON text (tokens)
\* A string held by localStorage is a sequence of character codes.  The
\* codes below stand for "[", "]", ",", "{", "}" and a character that is not
\* JSON; a seat object is serialized to one code >= SEAT_BASE.
LBRACKET == 0
RBRACKET == 1
COMMA == 2
LBRACE == 3
RBRACE == 4
GARBAGE == 5
SEAT_BASE == 10

StatusIndex(st) == CHOOSE i \in 1..Len(Statuses) : Statuses[i] = st

\* JSON.stringify of one seat object.
SeatToJSON(s) == SEAT_BASE + s.id * Len(Statuses) + (StatusIndex(s.status) - 1)

\* JSON.parse of one seat object.
SeatFromJSON(c) ==
  Seat((c - SEAT_BASE) \div Len(Statuses),
       Statuses[((c - SEAT_BASE) % Len(Statuses)) + 1])

IsSeatJSON(c) == c >= SEAT_BASE + Len(Statuses)

RECURSIVE JoinItems(_)
JoinItems(seats) ==
  IF Len(seats) = 0 THEN <<>>
  ELSE IF Len(seats) = 1 THEN <<SeatToJSON(seats[1])>>
  ELSE <<SeatToJSON(seats[1]), COMMA>> \o JoinItems(Tail(seats))

\* JSON.stringify(value) for a Seat[].
JSONstringify(seats) == <<LBRACKET>> \o JoinItems(seats) \o <<RBRACKET>>

\* The items between the brackets: item (, item)*.  Returns the parsed
\* seats, or "error" wrapped in a record when the text is not well formed.
RECURSIVE ParseItems(_, _)
ParseItems(text, acc) ==
  IF Len(text) = 0 THEN [ok |-> FALSE, value |-> <<>>]
  ELSE IF ~IsSeatJSON(text[1]) THEN [ok |-> FALSE, value |-> <<>>]
  ELSE IF Len(text) = 1
       THEN [ok |-> TRUE, value |-> Append(acc, SeatFromJSON(text[1]))]
  ELSE IF text[2] # COMMA THEN [ok |-> FALSE, value |-> <<>>]
  ELSE ParseItems(SubSeq(text, 3, Len(text)), Append(acc, SeatFromJSON(text[1])))

\* JSON.parse(text): kind "array" with the seats, kind "object" for a
\* well-formed non-array value, kind "throws" for a SyntaxError.
JSONparse(text) ==
  IF text = <<LBRACE, RBRACE>> THEN [kind |-> "object", value |-> <<>>]
  ELSE IF Len(text) >= 2 /\ text[1] = LBRACKET /\ text[Len(text)] = RBRACKET
       THEN IF Len(text) = 2 THEN [kind |-> "array", value |-> <<>>]
            ELSE LET r == ParseItems(SubSeq(text, 2, Len(text) - 1), <<>>)
                 IN  IF r.ok THEN [kind |-> "array", value |-> r.value]
                     ELSE [kind |-> "throws", value |-> <<>>]
  ELSE [kind |-> "throws", value |-> <<>>]

\* ------------------------------------------------------------ localStorage
\* The entry under STORAGE_KEY: absent (getItem returns null) or a string.
Absent == [present |-> FALSE, text |-> <<>>]

Stored(text) == [present |-> TRUE, text |-> text]

\* ---- localStorage may fail.  A fault plan says how the calls made while
\* ---- one event is handled end: getItem, the first setItem of a save, any
\* ---- removeItem, and the setItem of the retry.
NoFault == [get |-> "ok", set |-> "ok", remove |-> "ok", retry |-> "ok"]

Faults ==
  [get : {"ok", "throws"}, set : {"ok", "quota", "other"},
   remove : {"ok", "throws"}, retry : {"ok", "throws"}]

\* One localStorage call and how it ended.
Call(name, result) == [call |-> name, result |-> result]

\* localStorage.removeItem(key)
removeItem(store, f) == IF f.remove = "ok" THEN Absent ELSE store

\* safeGetFromStorage with the test inverted: `if (Array.isArray(parsed)) throw`.
safeGetFromStorage_InvertedCheck(store, f) ==
  IF f.get = "throws"
  THEN [isNull |-> TRUE, value |-> <<>>, store |-> removeItem(store, f),
        caught |-> "read", threw |-> FALSE,
        log |-> <<Call("getItem", "throws"), Call("removeItem", f.remove)>>]
  ELSE IF ~store.present \/ store.text = <<>>
  THEN [isNull |-> TRUE, value |-> <<>>, store |-> store,
        caught |-> "none", threw |-> FALSE, log |-> <<Call("getItem", "ok")>>]
  ELSE LET parsed == JSONparse(store.text)
       IN  IF parsed.kind = "object"
           THEN [isNull |-> FALSE, value |-> parsed.value, store |-> store,
                 caught |-> "none", threw |-> FALSE,
                 log |-> <<Call("getItem", "ok")>>]
           ELSE [isNull |-> TRUE, value |-> <<>>, store |-> removeItem(store, f),
                 caught |-> "parse", threw |-> FALSE,
                 log |-> <<Call("getItem", "ok"), Call("removeItem", f.remove)>>]

\* const safeGetFromStorage = (key): Seat[] | null.  Returns the value read
\* (isNull when the function returns null), the storage entry it leaves, what
\* its catch block caught, whether an exception leaves the function, and the
\* localStorage calls it made.
safeGetFromStorage(store, f) ==
  IF f.get = "throws"
  \* catch: getItem threw -> removeItem (its own failure is swallowed), null
  THEN [isNull |-> TRUE, value |-> <<>>, store |-> removeItem(store, f),
        caught |-> "read", threw |-> FALSE,
        log |-> <<Call("getItem", "throws"), Call("removeItem", f.remove)>>]
  ELSE IF ~store.present \/ store.text = <<>>
  THEN [isNull |-> TRUE, value |-> <<>>, store |-> store,
        caught |-> "none", threw |-> FALSE, log |-> <<Call("getItem", "ok")>>]
  ELSE LET parsed == JSONparse(store.text)
       IN  IF parsed.kind = "array"
           THEN [isNull |-> FALSE, value |-> parsed.value, store |-> store,
                 caught |-> "none", threw |-> FALSE,
                 log |-> <<Call("getItem", "ok")>>]
           \* catch: SyntaxError or StorageError -> removeItem, return null
           ELSE [isNull |-> TRUE, value |-> <<>>, store |-> removeItem(store, f),
                 caught |-> "parse", threw |-> FALSE,
                 log |-> <<Call("getItem", "ok"), Call("removeItem", f.remove)>>]

\* safeSetToStorage retrying whatever the error was (no test of error.name).
safeSetToStorage_RetryAnyError(store, value, f) ==
  IF f.set = "ok"
  THEN [store |-> Stored(JSONstringify(value)), ok |-> TRUE, threw |-> FALSE,
        log |-> <<Call("setItem", "ok")>>]
  ELSE IF f.remove = "throws"
       THEN [store |-> store, ok |-> FALSE, threw |-> FALSE,
             log |-> <<Call("setItem", f.set), Call("removeItem", "throws")>>]
       ELSE IF f.retry = "ok"
       THEN [store |-> Stored(JSONstringify(value)), ok |-> TRUE, threw |-> FALSE,
             log |-> <<Call("setItem", f.set), Call("removeItem", "ok"),
                       Call("setItem", "ok")>>]
       ELSE [store |-> Absent, ok |-> FALSE, threw |-> FALSE,
             log |-> <<Call("setItem", f.set), Call("removeItem", "ok"),
                       Call("setItem", "throws")>>]

\* const safeSetToStorage = (key, value): boolean.  Returns the storage entry
\* after the call, the boolean, whether an exception leaves the function, and
\* the localStorage calls it made.
safeSetToStorage(store, value, f) ==
  IF f.set = "ok"
  THEN [store |-> Stored(JSONstringify(value)), ok |-> TRUE, threw |-> FALSE,
        log |-> <<Call("setItem", "ok")>>]
  ELSE IF f.set = "quota"
  \* QuotaExceededError: try { removeItem; setItem } catch { return false }
  THEN IF f.remove = "throws"
       THEN [store |-> store, ok |-> FALSE, threw |-> FALSE,
             log |-> <<Call("setItem", "quota"), Call("removeItem", "throws")>>]
       ELSE IF f.retry = "ok"
       THEN [store |-> Stored(JSONstringify(value)), ok |-> TRUE, threw |-> FALSE,
             log |-> <<Call("setItem", "quota"), Call("removeItem", "ok"),
                       Call("setItem", "ok")>>]
       ELSE [store |-> Absent, ok |-> FALSE, threw |-> FALSE,
             log |-> <<Call("setItem", "quota"), Call("removeItem", "ok"),
                       Call("setItem", "throws")>>]
  \* any other error: return false
  ELSE [store |-> store, ok |-> FALSE, threw |-> FALSE,
        log |-> <<Call("setItem", "other")>>]

\* const safeRemoveFromStorage = (key): void.
safeRemoveFromStorage(store, f) ==
  [store |-> removeItem(store, f), threw |-> FALSE,
   log |-> <<Call("removeItem", f.remove)>>]

\* --------------------------------------------------------- selection store
VARIABLES
  selectedSeats,   \* useState<Seat[]>: the Selection Set, in insertion order
  selectedIds,     \* useMemo: Set of the ids of selectedSeats, as last computed
  isInitialized,   \* useState(false), true once the load effect has run
  isClearing,      \* useRef(false)
  storage,         \* localStorage entry under STORAGE_KEY
  events,          \* number of events handled so far
  lastOp,          \* the last event handled and what it did
  storageLog,      \* the localStorage calls the last event made, in order
  uncaught,        \* an exception left the hook during the last event
  refSeats,        \* the Selection Set of a store that was mounted with the
                   \* same selection and received the same calls, on a
                   \* localStorage that never fails
  venue,           \* the Venue handed to the seat finder and the seat map
  search,          \* the last call of the seat finder and what it returned
  focusedSeatIndex, \* SeatMap: useState(0), index into allSeats
  toasts,          \* SelectionSummary: the toasts the last event raised
  loader           \* useVenue: its state, its timers and the fetches it made

storeVars ==
  <<selectedSeats, selectedIds, isInitialized, isClearing, storage, events,
    lastOp, storageLog, uncaught, refSeats>>

finderVars == <<venue, search>>

uiVars == <<focusedSeatIndex, toasts, loader>>

vars == <<storeVars, finderVars, uiVars>>

\* useVenue is not mounted: the venue is handed over by the caller.
NotMounted == [phase |-> "unmounted"]

\* No seat map, summary panel or venue loader is rendered around the hook.
NoInterface ==
  /\ focusedSeatIndex = 0
  /\ toasts = <<>>
  /\ loader = NotMounted

\* options = {}: no preferredSection, no preferredPriceTier, no preferCenter.
\* An absent string is "", an absent number 0: the values the code's
\* truthiness tests treat as absent.
NoOptions ==
  [preferredSection |-> "", preferredPriceTier |-> 0, preferCenter |-> FALSE]

\* The seat finder has not been called.
NoSearch ==
  [fn |-> "none", count |-> 0, options |-> NoOptions,
   result |-> [kind |-> "none", seats |-> <<>>]]

Range(seq) == {seq[i] : i \in 1..Len(seq)}

\* prev.some(s => s.id === seat.id)
HasId(prev, id) == \E i \in 1..Len(prev) : prev[i].id = id

\* prev.filter(s => s.id !== seat.id)
RECURSIVE FilterOutId(_, _)
FilterOutId(prev, id) ==
  IF Len(prev) = 0 THEN <<>>
  ELSE IF prev[1].id = id THEN FilterOutId(Tail(prev), id)
  ELSE <<prev[1]>> \o FilterOutId(Tail(prev), id)

\* Variants of the updater, each with one slip.
\* ... without the cap test:
toggleUpdater_NoCap(prev, seat) ==
  IF HasId(prev, seat.id)
  THEN [value |-> FilterOutId(prev, seat.id), isPrev |-> FALSE]
  ELSE [value |-> Append(prev, seat), isPrev |-> FALSE]

\* ... with `prev.length > 8` for `prev.length >= 8`:
toggleUpdater_CapOffByOne(prev, seat) ==
  IF HasId(prev, seat.id)
  THEN [value |-> FilterOutId(prev, seat.id), isPrev |-> FALSE]
  ELSE IF Len(prev) > MAX_SELECTED
  THEN [value |-> prev, isPrev |-> TRUE]
  ELSE [value |-> Append(prev, seat), isPrev |-> FALSE]

\* ... deselecting with prev.slice(0, -1) instead of the filter by id:
toggleUpdater_RemoveLast(prev, seat) ==
  IF HasId(prev, seat.id)
  THEN [value |-> SubSeq(prev, 1, Len(prev) - 1), isPrev |-> FALSE]
  ELSE IF Len(prev) >= MAX_SELECTED
  THEN [value |-> prev, isPrev |-> TRUE]
  ELSE [value |-> Append(prev, seat), isPrev |-> FALSE]

\* ... returning prev for a seat that is already selected:
toggleUpdater_AddOnly(prev, seat) ==
  IF HasId(prev, seat.id) \/ Len(prev) >= MAX_SELECTED
  THEN [value |-> prev, isPrev |-> TRUE]
  ELSE [value |-> Append(prev, seat), isPrev |-> FALSE]

\* ... without the membership test: a selected seat is added once more.
toggleUpdater_AlwaysAdd(prev, seat) ==
  IF Len(prev) >= MAX_SELECTED
  THEN [value |-> prev, isPrev |-> TRUE]
  ELSE [value |-> Append(prev, seat), isPrev |-> FALSE]

\* The updater toggleSeat hands to setSelectedSeats: the array it returns,
\* and whether that is prev itself (React then bails out: no render, no
\* effect) or a new array (filter and spread always build one).
toggleUpdater(prev, seat) ==
  IF HasId(prev, seat.id)
  THEN [value |-> FilterOutId(prev, seat.id), isPrev |-> FALSE]
  ELSE IF Len(prev) >= MAX_SELECTED
  THEN [value |-> prev, isPrev |-> TRUE]
  ELSE [value |-> Append(prev, seat), isPrev |-> FALSE]

\* new Set(selectedSeats.map(s => s.id))
IdsOf(seats) == {seats[i].id : i \in 1..Len(seats)}

\* isSelected = (seatId) => selectedIds.has(seatId)
isSelected(seatId) == seatId \in selectedIds

\* What a toggleSeat(seat) call does to the list prev (for lastOp).
ToggleOutcome(prev, seat) ==
  IF seat.status # "available"
  THEN IF HasId(prev, seat.id) THEN "ignoredMember" ELSE "ignored"
  ELSE IF HasId(prev, seat.id) THEN "removed"
  ELSE IF Len(prev) >= MAX_SELECTED THEN "rejected"
  ELSE "added"

\* ---- one event: handler calls run first, then React renders once and runs
\* ---- the effects.  h is the state while the handler runs: the list the
\* ---- queued updaters produce, whether any produced a new array, the
\* ---- isClearing ref, the storage entry, how localStorage behaves during
\* ---- the event, the calls made on it and whether an exception got out.
Handler(seats, clearing, store, f) ==
  [seats |-> seats, changed |-> FALSE, clearing |-> clearing, store |-> store,
   fault |-> f, log |-> <<>>, threw |-> FALSE]

\* toggleSeat without its first line (the status test).
toggleSeat_NoStatusCheck(h, seat) ==
  LET next == toggleUpdater(h.seats, seat)
  IN  [h EXCEPT !.seats = next.value,
                !.changed = h.changed \/ ~next.isPrev]

\* const toggleSeat = useCallback((seat) => {...})
toggleSeat(h, seat) ==
  IF seat.status # "available" THEN h
  ELSE LET next == toggleUpdater(h.seats, seat)
       IN  [h EXCEPT !.seats = next.value,
                     !.changed = h.changed \/ ~next.isPrev]

\* clearSelection calling localStorage.removeItem first and outside any try:
\* when it throws, the handler is left before setSelectedSeats([]).
clearSelection_RemoveUnguarded(h) ==
  IF h.fault.remove = "throws"
  THEN [h EXCEPT !.log = h.log \o <<Call("removeItem", "throws")>>,
                 !.threw = TRUE]
  ELSE [h EXCEPT !.clearing = TRUE,
                 !.seats = <<>>,
                 !.changed = TRUE,
                 !.store = Absent,
                 !.log = h.log \o <<Call("removeItem", "ok")>>]

\* const clearSelection = useCallback(() => {...})
clearSelection(h) ==
  LET r == safeRemoveFromStorage(h.store, h.fault)
  IN  [h EXCEPT !.clearing = TRUE,
                !.seats = <<>>,
                !.changed = TRUE,
                !.store = r.store,
                !.log = h.log \o r.log,
                !.threw = h.threw \/ r.threw]

\* The persist effect as first written: `if (selectedSeats.length > 0)`.
PersistEffect_OnlyNonEmpty(initialized, clearing, store, seats, f) ==
  IF initialized /\ ~clearing /\ Len(seats) > 0
  THEN LET r == safeSetToStorage(store, seats, f)
       IN  [store |-> r.store, clearing |-> FALSE, log |-> r.log, threw |-> r.threw]
  ELSE [store |-> store, clearing |-> FALSE, log |-> <<>>, threw |-> FALSE]

\* The persist effect, run after a render in which selectedSeats or
\* isInitialized changed: the storage entry and the isClearing ref it leaves.
\* The boolean safeSetToStorage returns is dropped.
PersistEffect(initialized, clearing, store, seats, f) ==
  IF initialized /\ ~clearing
  THEN LET r == safeSetToStorage(store, seats, f)
       IN  [store |-> r.store, clearing |-> FALSE, log |-> r.log, threw |-> r.threw]
  ELSE [store |-> store, clearing |-> FALSE, log |-> <<>>, threw |-> FALSE]

\* Commit with selectedIds memoized on no dependency (`useMemo(..., [])`):
\* the id set is never recomputed.
Commit_StaleIds(h, op) ==
  /\ events' = events + 1
  /\ lastOp' = op
  /\ UNCHANGED <<isInitialized, selectedIds, finderVars>>
  /\ IF h.changed
     THEN LET e == PersistEffect(isInitialized, h.clearing, h.store, h.seats, h.fault)
          IN  /\ selectedSeats' = h.seats
              /\ storage' = e.store
              /\ isClearing' = e.clearing
              /\ storageLog' = h.log \o e.log
              /\ uncaught' = (h.threw \/ e.threw)
     ELSE /\ UNCHANGED selectedSeats
          /\ storage' = h.store
          /\ isClearing' = h.clearing
          /\ storageLog' = h.log
          /\ uncaught' = h.threw

\* Render and effects after the handler returned with state h.
Commit(h, op) ==
  /\ events' = events + 1
  /\ lastOp' = op
  /\ UNCHANGED <<isInitialized, finderVars>>
  /\ IF h.changed
     THEN LET e == PersistEffect(isInitialized, h.clearing, h.store, h.seats, h.fault)
          IN  /\ selectedSeats' = h.seats
              /\ selectedIds' = IdsOf(h.seats)
              /\ storage' = e.store
              /\ isClearing' = e.clearing
              /\ storageLog' = h.log \o e.log
              /\ uncaught' = (h.threw \/ e.threw)
     ELSE /\ UNCHANGED <<selectedSeats, selectedIds>>
          /\ storage' = h.store
          /\ isClearing' = h.clearing
          /\ storageLog' = h.log
          /\ uncaught' = h.threw

Op(kind, outcome) == [kind |-> kind, outcome |-> outcome]

\* Mounting the hook on a storage entry.  First render: selectedSeats = [],
\* isInitialized = false; the load effect reads the entry, the persist effect
\* of that render sees isInitialized = false.  Second render (the loaded
\* seats, isInitialized = true): the persist effect runs again.
Mounted(store, f) ==
  LET saved == safeGetFromStorage(store, f)
      seats == IF saved.isNull THEN <<>> ELSE saved.value
      e1 == PersistEffect(FALSE, FALSE, saved.store, <<>>, f)
      e2 == PersistEffect(TRUE, e1.clearing, e1.store, seats, f)
  IN  [seats |-> seats, store |-> e2.store, clearing |-> e2.clearing,
       restored |-> ~saved.isNull, caught |-> saved.caught,
       afterLoad |-> saved.store,
       log |-> saved.log \o e1.log \o e2.log,
       threw |-> (saved.threw \/ e1.threw \/ e2.threw)]

\* "restored": an array was loaded; "corrupted": the entry could not be
\* parsed or was no array; "unreadable": getItem threw; "empty": no entry.
MountOutcome(m) ==
  IF m.restored THEN "restored"
  ELSE IF m.caught = "parse" THEN "corrupted"
  ELSE IF m.caught = "read" THEN "unreadable"
  ELSE "empty"

\* The state of a freshly mounted store on the storage entry `store`, with
\* localStorage behaving as f says during the mount.
MountedStore(store, f) ==
  LET m == Mounted(store, f)
  IN  /\ selectedSeats = m.seats
      /\ selectedIds = IdsOf(m.seats)
      /\ isInitialized = TRUE
      /\ isClearing = m.clearing
      /\ storage = m.store
      /\ events = 0
      /\ lastOp = Op("init", MountOutcome(m))
      /\ storageLog = m.log
      /\ uncaught = m.threw
      /\ refSeats = m.seats

\* The store is mounted and the seat finder idle, with no venue to search.
InitOn(store, f) ==
  /\ MountedStore(store, f)
  /\ venue = <<>>
  /\ search = NoSearch
  /\ NoInterface

\* First visit: nothing under the storage key.
Init == InitOn(Absent, NoFault)

\* A block of n seats with consecutive ids from i, all available: what the
\* adjacent-seat search hands to onAdjacentSeatsFound.
Block(i, n) == [k \in 1..n |-> Seat(i + k - 1, "available")]

FoundBlocks ==
  {Block(i, n) : i \in SeatIds, n \in MIN_ADJACENT..MAX_ADJACENT} \cap Seq(AvailableSeats)

\* The seats a test selects with one loop: seat-1 .. seat-n.  With n above
\* the cap the last calls of the loop are made on a full selection.
Batches == {Block(1, n) : n \in 2..NumSeatIds}

\* seats.forEach(seat => toggleSeat(seat))
RECURSIVE ToggleEach(_, _)
ToggleEach(h, seats) ==
  IF Len(seats) = 0 THEN h
  ELSE ToggleEach(toggleSeat(h, seats[1]), Tail(seats))

\* The handler state of the store itself, and of the reference store whose
\* localStorage never fails.
Live(f) == Handler(selectedSeats, isClearing, storage, f)

Ref == Handler(refSeats, FALSE, Absent, NoFault)

\* onSeatClick={toggleSeat}: one click on a seat is one event.
ToggleSeatOn(seat, f) ==
  /\ Commit(toggleSeat(Live(f), seat),
            Op("toggle", ToggleOutcome(selectedSeats, seat)))
  /\ refSeats' = toggleSeat(Ref, seat).seats

ToggleSeatEvent(seat) ==
  events < MaxEvents /\ ToggleSeatOn(seat, NoFault) /\ UNCHANGED uiVars

\* toggleSeat(seat); toggleSeat(seat) within one event (one act() batch).
ToggleTwiceOn(seat, f) ==
  /\ Commit(ToggleEach(Live(f), <<seat, seat>>),
            Op("toggleTwice", ToggleOutcome(selectedSeats, seat)))
  /\ refSeats' = ToggleEach(Ref, <<seat, seat>>).seats

ToggleTwiceEvent(seat) ==
  events < MaxEvents /\ ToggleTwiceOn(seat, NoFault) /\ UNCHANGED uiVars

\* Several toggleSeat calls within one event: act(() => { for (...)
\* toggleSeat(seat) }) selects a block of seats with one render.
ToggleBatchOn(seats, f) ==
  /\ Commit(ToggleEach(Live(f), seats), Op("toggleBatch", "none"))
  /\ refSeats' = ToggleEach(Ref, seats).seats

ToggleBatchEvent(seats) ==
  events < MaxEvents /\ ToggleBatchOn(seats, NoFault) /\ UNCHANGED uiVars

\* The clear button / Escape key: clearSelection() is the whole event.
ClearOn(f) ==
  /\ Commit(clearSelection(Live(f)), Op("clear", "none"))
  /\ refSeats' = clearSelection(Ref).seats

ClearEvent ==
  events < MaxEvents /\ ClearOn(NoFault) /\ UNCHANGED uiVars

\* handleAdjacentSeatsFound without its clearSelection() call.
AdjacentSeatsFoundOn_NoClear(seats, f) ==
  /\ Commit(ToggleEach(Live(f), seats), Op("adjacent", "none"))
  /\ refSeats' = ToggleEach(Ref, seats).seats

\* const handleAdjacentSeatsFound = (seats) => { clearSelection(); seats.forEach(...) }
AdjacentSeatsFoundOn(seats, f) ==
  /\ Commit(ToggleEach(clearSelection(Live(f)), seats), Op("adjacent", "none"))
  /\ refSeats' = ToggleEach(clearSelection(Ref), seats).seats

handleAdjacentSeatsFound(seats) ==
  events < MaxEvents /\ AdjacentSeatsFoundOn(seats, NoFault) /\ UNCHANGED uiVars

\* Page reload: the hook is mounted afresh on what localStorage holds.
ReloadOn(f) ==
  LET m == Mounted(storage, f)
     IN  /\ selectedSeats' = m.seats
         /\ selectedIds' = IdsOf(m.seats)
         /\ isInitialized' = TRUE
         /\ isClearing' = m.clearing
         /\ storage' = m.store
         /\ events' = events + 1
         /\ lastOp' = Op("reload", MountOutcome(m))
         /\ storageLog' = m.log
         /\ uncaught' = m.threw
         /\ refSeats' = m.seats
         /\ UNCHANGED finderVars

Reload ==
  events < MaxEvents /\ ReloadOn(NoFault) /\ UNCHANGED uiVars

Next ==
  \/ \E seat \in Seats : ToggleSeatEvent(seat)
  \/ \E seat \in AvailableSeats : ToggleTwiceEvent(seat)
  \/ \E seats \in Batches : ToggleBatchEvent(seats)
  \/ ClearEvent
  \/ \E seats \in FoundBlocks : handleAdjacentSeatsFound(seats)
  \/ Reload

Spec == Init /\ [][Next]_vars

\* ---- startup on whatever the storage key holds
\* Seat arrays a previous session, another tab or the user may have left.
StoredArrays ==
  {Block(1, n) : n \in 1..MaxStoredLen}
    \cup {<<>>,
          <<Seat(1, "available"), Seat(1, "available")>>,
          <<Seat(1, "sold"), Seat(2, "available")>>,
          <<Seat(2, "available"), Seat(1, "available"), Seat(2, "available")>>}

InitialStorage ==
  {Absent, Stored(<<>>), Stored(<<GARBAGE>>), Stored(<<LBRACKET>>),
   Stored(<<LBRACE, RBRACE>>), Stored(<<LBRACKET, COMMA, RBRACKET>>)}
    \cup {Stored(JSONstringify(a)) : a \in StoredArrays}

InitRestore == \E store \in InitialStorage : InitOn(store, NoFault)

SpecRestore == InitRestore /\ [][Next]_vars

\* ---- the same store on a localStorage whose calls may throw
\* What a save can meet: getItem is not called after the mount.
WriteFaults == {f \in Faults : f.get = "ok"}

\* What clearSelection alone can meet: it only calls removeItem.
RemoveFaults == {f \in WriteFaults : f.set = "ok" /\ f.retry = "ok"}

\* The entries the hook is mounted on: none, a corrupted one, a saved pair.
FaultyStartStorage ==
  {Absent, Stored(<<GARBAGE>>), Stored(JSONstringify(Block(1, 2)))}

InitFaulty == \E store \in FaultyStartStorage, f \in Faults : InitOn(store, f)

\* One event of the store while localStorage misbehaves as f says.
ToggleSeatFaulty(seat, f) ==
  events < MaxFaultyEvents /\ ToggleSeatOn(seat, f) /\ UNCHANGED uiVars

ToggleBatchFaulty(seats, f) ==
  events < MaxFaultyEvents /\ ToggleBatchOn(seats, f) /\ UNCHANGED uiVars

ClearFaulty(f) ==
  events < MaxFaultyEvents /\ ClearOn(f) /\ UNCHANGED uiVars

AdjacentSeatsFoundFaulty(seats, f) ==
  events < MaxFaultyEvents /\ AdjacentSeatsFoundOn(seats, f) /\ UNCHANGED uiVars

NextFaulty ==
  \/ \E seat \in AvailableSeats, f \in WriteFaults : ToggleSeatFaulty(seat, f)
  \/ \E seats \in Batches, f \in WriteFaults : ToggleBatchFaulty(seats, f)
  \/ \E f \in RemoveFaults : ClearFaulty(f)
  \/ \E seats \in Batches \cap FoundBlocks, f \in RemoveFaults :
       AdjacentSeatsFoundFaulty(seats, f)

SpecFaulty == InitFaulty /\ [][NextFaulty]_vars

\* ================================================================ seat finder
\* The Seat records of a Venue, with the fields the finder reads and the
\* enrichment fields that say where the seat sits.
VenueSeat(sec, row, col, tier, st) ==
  [sectionId |-> sec, rowIndex |-> row, col |-> col, priceTier |-> tier,
   status |-> st]

Row(index, seats) == [index |-> index, seats |-> seats]

Section(id, rows) == [id |-> id, rows |-> rows]

\* [...seats].sort((a, b) => a.col - b.col): a stable sort by col.
InsertByCol(sorted, seat) ==
  LET k == Cardinality({i \in 1..Len(sorted) : sorted[i].col <= seat.col})
  IN  SubSeq(sorted, 1, k) \o <<seat>> \o SubSeq(sorted, k + 1, Len(sorted))

RECURSIVE SortByCol(_)
SortByCol(seats) ==
  IF seats = <<>> THEN <<>>
  ELSE InsertByCol(SortByCol(SubSeq(seats, 1, Len(seats) - 1)), seats[Len(seats)])

\* The status test applied to the first seat of the window only.
AllAvailable_FirstOnly(candidate) == candidate[1].status = "available"

\* candidate.every(seat => seat.status === 'available')
AllAvailable(candidate) ==
  \A i \in 1..Len(candidate) : candidate[i].status = "available"

\* candidate.every((seat, idx) => idx === 0 || seat.col === candidate[idx - 1].col + 1)
IsConsecutive(candidate) ==
  \A i \in 2..Len(candidate) : candidate[i].col = candidate[i - 1].col + 1

\* The windows of `count` seats of a row's sorted seats that are all
\* available and consecutive, by the index of their first seat.
QualifyingStarts(sortedSeats, count) ==
  {i \in 1..(Len(sortedSeats) - count + 1) :
     LET candidate == SubSeq(sortedSeats, i, i + count - 1)
     IN  AllAvailable(candidate) /\ IsConsecutive(candidate)}

Least(S) == CHOOSE x \in S : \A y \in S : x <= y

\* findConsecutiveInRow skipping the test of the col values.
findConsecutiveInRow_NoColCheck(seats, count) ==
  LET sortedSeats == SortByCol(seats)
      starts == {i \in 1..(Len(sortedSeats) - count + 1) :
                   AllAvailable(SubSeq(sortedSeats, i, i + count - 1))}
  IN  IF starts = {} THEN <<>>
      ELSE SubSeq(sortedSeats, Least(starts), Least(starts) + count - 1)

\* findConsecutiveInRow returning the last qualifying window of the row.
findConsecutiveInRow_Rightmost(seats, count) ==
  LET sortedSeats == SortByCol(seats)
      starts == QualifyingStarts(sortedSeats, count)
      last == CHOOSE x \in starts : \A y \in starts : y <= x
  IN  IF starts = {} THEN <<>>
      ELSE SubSeq(sortedSeats, last, last + count - 1)

\* function findConsecutiveInRow(seats, count): the first window, scanning
\* the sorted seats from the left, that qualifies; [] when there is none.
findConsecutiveInRow(seats, count) ==
  LET sortedSeats == SortByCol(seats)
      starts == QualifyingStarts(sortedSeats, count)
  IN  IF starts = {} THEN <<>>
      ELSE SubSeq(sortedSeats, Least(starts), Least(starts) + count - 1)

\* consecutiveSeats.reduce((sum, seat) => sum + seat.priceTier, 0)
RECURSIVE SumPriceTier(_)
SumPriceTier(seats) ==
  IF seats = <<>> THEN 0 ELSE seats[1].priceTier + SumPriceTier(Tail(seats))

Abs(n) == IF n < 0 THEN -n ELSE n

\* Scores are fractions (a mean, plus 0.5 and 0.1 times a distance).  All
\* scores of one call are kept multiplied by ScoreScale * count, which makes
\* them integers and leaves their order and their ties as they are.
ScoreScale == 20

\* score: avgPriceTier
PlainScore(seats) == ScoreScale * SumPriceTier(seats)

\* The score with rowCenter taken as a coordinate, the middle between the
\* lowest and the highest col of the row, instead of row.seats.length / 2.
PreferenceScore_CenterIsMiddleCol(seats, row, count, options) ==
  PlainScore(seats)
    + (IF options.preferredPriceTier # 0
       THEN (ScoreScale \div 2)
              * Abs(SumPriceTier(seats) - options.preferredPriceTier * count)
       ELSE 0)
    + (IF options.preferCenter
       THEN (ScoreScale \div 20) * count
              * Abs(seats[1].col + seats[Len(seats)].col
                      - (SortByCol(row.seats)[1].col
                           + SortByCol(row.seats)[Len(row.seats)].col))
       ELSE 0)

\* score with the penalties of the options: + |avgTier - preferredPriceTier|
\* * 0.5, + |groupCenter - rowCenter| * 0.1 with rowCenter = row.seats.length
\* / 2 and groupCenter = (firstSeat.col + lastSeat.col) / 2.
PreferenceScore(seats, row, count, options) ==
  PlainScore(seats)
    + (IF options.preferredPriceTier # 0
       THEN (ScoreScale \div 2)
              * Abs(SumPriceTier(seats) - options.preferredPriceTier * count)
       ELSE 0)
    + (IF options.preferCenter
       THEN (ScoreScale \div 20) * count
              * Abs(seats[1].col + seats[Len(seats)].col - Len(row.seats))
       ELSE 0)

\* if (count < 2 || count > 8) throw ... with the upper test left out.
CountOutOfRange_LowerOnly(count) == count < MIN_ADJACENT

\* if (count < 2 || count > 8) throw new Error('Count must be between 2 and 8')
CountOutOfRange(count) == count < MIN_ADJACENT \/ count > MAX_ADJACENT

\* The section filter left out: every section is searched.
SectionSkipped_Never(section, options) == FALSE

\* if (options.preferredSection && section.id !== options.preferredSection) continue
SectionSkipped(section, options) ==
  options.preferredSection # "" /\ section.id # options.preferredSection

\* for (const section of venue.sections) for (const row of section.rows):
\* the rows in the order the loops visit them, each with its section.
RECURSIVE RowsInOrder(_)
RowsInOrder(sections) ==
  IF sections = <<>> THEN <<>>
  ELSE [k \in 1..Len(sections[1].rows) |->
          [section |-> sections[1], row |-> sections[1].rows[k]]]
         \o RowsInOrder(Tail(sections))

\* What the loops push to `results`, in order; withPreferences says which of
\* the two functions runs the loops.
RECURSIVE CollectResults(_, _, _, _)
CollectResults(visited, count, options, withPreferences) ==
  IF visited = <<>> THEN <<>>
  ELSE LET section == visited[1].section
           row == visited[1].row
           consecutiveSeats == findConsecutiveInRow(row.seats, count)
           rest == CollectResults(Tail(visited), count, options, withPreferences)
       IN  IF withPreferences /\ SectionSkipped(section, options) THEN rest
           ELSE IF Len(row.seats) < count THEN rest
           ELSE IF Len(consecutiveSeats) > 0
           THEN <<[seats |-> consecutiveSeats, section |-> section, row |-> row,
                   score |-> IF withPreferences
                             THEN PreferenceScore(consecutiveSeats, row, count, options)
                             ELSE PlainScore(consecutiveSeats)]>> \o rest
           ELSE rest

\* results.sort(...)[0] with a sort that puts the last of equal scores first.
FirstOfSorted_LastOfTies(results) ==
  LET best == CHOOSE i \in 1..Len(results) :
                \A j \in 1..Len(results) :
                  \/ results[i].score < results[j].score
                  \/ (results[i].score = results[j].score /\ j <= i)
  IN  results[best]

\* results.sort((a, b) => a.score - b.score); results[0]: Array.prototype.sort
\* is stable, so of the results with the lowest score the first pushed is first.
FirstOfSorted(results) ==
  LET best == CHOOSE i \in 1..Len(results) :
                \A j \in 1..Len(results) :
                  \/ results[i].score < results[j].score
                  \/ (results[i].score = results[j].score /\ i <= j)
  IN  results[best]

Throws == [kind |-> "throws", seats |-> <<>>]

Null == [kind |-> "null", seats |-> <<>>]

Found(seats) == [kind |-> "seats", seats |-> seats]

\* export function findAdjacentSeats(venue, count): Seat[] | null
findAdjacentSeats(v, count) ==
  IF CountOutOfRange(count) THEN Throws
  ELSE LET results == CollectResults(RowsInOrder(v), count, NoOptions, FALSE)
       IN  IF Len(results) = 0 THEN Null
           ELSE Found(FirstOfSorted(results).seats)

\* export function findAdjacentSeatsWithPreferences(venue, count, options = {})
findAdjacentSeatsWithPreferences(v, count, options) ==
  IF CountOutOfRange(count) THEN Throws
  ELSE LET results == CollectResults(RowsInOrder(v), count, options, TRUE)
       IN  IF Len(results) = 0 THEN Null
           ELSE Found(FirstOfSorted(results).seats)

\* ---- the venues searched
\* The seats of one row, by col: cells[col] is 0 where the row has no seat
\* with that col, -1 for a sold seat (of tier 1), and t > 0 for an available
\* seat of price tier t.
RECURSIVE SeatsOfCells(_, _, _, _)
SeatsOfCells(cells, col, sec, idx) ==
  IF col > Len(cells) THEN <<>>
  ELSE (IF cells[col] = 0 THEN <<>>
        ELSE <<VenueSeat(sec, idx, col,
                         IF cells[col] < 0 THEN 1 ELSE cells[col],
                         IF cells[col] < 0 THEN "sold" ELSE "available")>>)
         \o SeatsOfCells(cells, col + 1, sec, idx)

Reverse(seq) == [i \in 1..Len(seq) |-> seq[Len(seq) + 1 - i]]

SectionIds == <<"section-1", "section-2">>

\* Rows of tier-1 seats with every mix of missing cols, sold and available
\* seats.
AvailabilityRows == [1..MaxCols -> {-1, 0, 1}]

\* Fully available rows with every mix of price tiers.
PricedRows == UNION {[1..n -> 1..MaxTier] : n \in 1..MaxPricedLen}

\* Rows of n available tier-1 seats, up to one seat more than the largest count.
LongRows == {[col \in 1..n |-> 1] : n \in MIN_ADJACENT..(MAX_ADJACENT + 1)}

\* Rows for venues of several rows: two available seats, a single seat, two
\* sold seats.
PairRows ==
  {p \in [1..2 -> 1..MaxTier] : p[1] <= p[2]} \cup {<<1>>, <<-1, -1>>}

\* venue.sections of the venues searched.  Rows with missing cols are stored
\* from the highest col down: the finder sorts a copy.
Venues ==
  {<<>>, <<Section(SectionIds[1], <<>>)>>}
    \cup {<<Section(SectionIds[1],
                    <<Row(1, Reverse(SeatsOfCells(c, 1, SectionIds[1], 1)))>>)>> :
            c \in AvailabilityRows}
    \cup {<<Section(SectionIds[1], <<Row(1, SeatsOfCells(c, 1, SectionIds[1], 1))>>)>> :
            c \in PricedRows \cup LongRows}
    \cup {<<Section(SectionIds[1], <<Row(1, SeatsOfCells(a, 1, SectionIds[1], 1)),
                                     Row(2, SeatsOfCells(b, 1, SectionIds[1], 2))>>),
            Section(SectionIds[2], <<Row(1, SeatsOfCells(c, 1, SectionIds[2], 1))>>)>> :
            a \in PairRows, b \in PairRows, c \in PairRows}
    \cup {<<Section(SectionIds[1],
                    <<Row(1, SeatsOfCells([col \in 1..WideRowLen |-> 1], 1, SectionIds[1], 1)),
                      Row(2, SeatsOfCells(<<1, 2>>, 1, SectionIds[1], 2))>>)>>}

\* The counts asked for: the valid ones and one beyond each end.
Counts == (MIN_ADJACENT - 1)..(MAX_ADJACENT + 1)

\* The options passed: none, one of them alone (a section of the venue or
\* one it has not), and all three together.
OptionChoices ==
  {NoOptions}
    \cup {[NoOptions EXCEPT !.preferredSection = sec] :
            sec \in {SectionIds[1], SectionIds[2], "section-3"}}
    \cup {[NoOptions EXCEPT !.preferredPriceTier = p] : p \in 1..MaxTier}
    \cup {[NoOptions EXCEPT !.preferCenter = TRUE]}
    \cup {[preferredSection |-> SectionIds[2], preferredPriceTier |-> 1,
           preferCenter |-> TRUE]}

\* ---- getAdjacentSeatsStats
Max(a, b) == IF a >= b THEN a ELSE b

\* if (currentGroup.length >= 2) { availableGroups.set(count,
\* (availableGroups.get(count) || 0) + 1); maxConsecutive = Math.max(...) },
\* counting groups of one seat too.
FlushGroup_CountsSingles(currentGroup, stats) ==
  LET count == Len(currentGroup)
  IN  IF count >= 1
      THEN [availableGroups |->
              IF count \in DOMAIN stats.availableGroups
              THEN [stats.availableGroups EXCEPT ![count] = @ + 1]
              ELSE stats.availableGroups @@ (count :> 1),
            maxConsecutive |-> Max(stats.maxConsecutive, count)]
      ELSE stats

\* if (currentGroup.length >= 2) { availableGroups.set(count,
\* (availableGroups.get(count) || 0) + 1); maxConsecutive = Math.max(...) }
\* availableGroups is the Map, a function on the keys it holds.
FlushGroup(currentGroup, stats) ==
  LET count == Len(currentGroup)
  IN  IF count >= 2
      THEN [availableGroups |->
              IF count \in DOMAIN stats.availableGroups
              THEN [stats.availableGroups EXCEPT ![count] = @ + 1]
              ELSE stats.availableGroups @@ (count :> 1),
            maxConsecutive |-> Max(stats.maxConsecutive, count)]
      ELSE stats

\* The scan of one row without the handling of the last group: a group that
\* reaches the row's last seat is dropped.
RECURSIVE ScanRow_NoLastGroup(_, _, _, _)
ScanRow_NoLastGroup(sortedSeats, i, currentGroup, stats) ==
  IF i > Len(sortedSeats) THEN stats
  ELSE LET seat == sortedSeats[i]
       IN  IF seat.status = "available"
           THEN IF Len(currentGroup) = 0
                     \/ seat.col = currentGroup[Len(currentGroup)].col + 1
                THEN ScanRow_NoLastGroup(sortedSeats, i + 1,
                                         Append(currentGroup, seat), stats)
                ELSE ScanRow_NoLastGroup(sortedSeats, i + 1, <<seat>>,
                                         FlushGroup(currentGroup, stats))
           ELSE ScanRow_NoLastGroup(sortedSeats, i + 1, <<>>,
                                    FlushGroup(currentGroup, stats))

\* for (let i = 0; i < sortedSeats.length; i++) {...} and the handling of
\* the last group, for one row: i is the index of the seat looked at.
RECURSIVE ScanRow(_, _, _, _)
ScanRow(sortedSeats, i, currentGroup, stats) ==
  IF i > Len(sortedSeats) THEN FlushGroup(currentGroup, stats)
  ELSE LET seat == sortedSeats[i]
       IN  IF seat.status = "available"
           THEN IF Len(currentGroup) = 0
                     \/ seat.col = currentGroup[Len(currentGroup)].col + 1
                THEN ScanRow(sortedSeats, i + 1, Append(currentGroup, seat), stats)
                ELSE ScanRow(sortedSeats, i + 1, <<seat>>,
                             FlushGroup(currentGroup, stats))
           ELSE ScanRow(sortedSeats, i + 1, <<>>, FlushGroup(currentGroup, stats))

RECURSIVE ScanRows(_, _)
ScanRows(visited, stats) ==
  IF visited = <<>> THEN stats
  ELSE ScanRows(Tail(visited),
                ScanRow(SortByCol(visited[1].row.seats), 1, <<>>, stats))

\* export function getAdjacentSeatsStats(venue)
getAdjacentSeatsStats(v) ==
  ScanRows(RowsInOrder(v), [availableGroups |-> <<>>, maxConsecutive |-> 0])

\* ---- what a call leaves of its argument
\* seats.sort(...): the row's own array sorted in place.
SeatsAfterSort_InPlace(seats) == SortByCol(seats)

\* [...seats].sort(...): the copy is sorted, the row's array is as it was.
SeatsAfterSort(seats) == seats

\* The venue after findAdjacentSeats, findAdjacentSeatsWithPreferences or
\* getAdjacentSeatsStats returned: the only statement of the three that
\* writes to an array is the sort of each row's seats.
VenueAfterRead(v) ==
  [s \in 1..Len(v) |->
     [v[s] EXCEPT !.rows =
        [r \in 1..Len(v[s].rows) |->
           [v[s].rows[r] EXCEPT !.seats = SeatsAfterSort(v[s].rows[r].seats)]]]]

\* handleFindAdjacent with preferredSection === 'any': findAdjacentSeats(venue, count)
FindAdjacent(count) ==
  /\ search.fn = "none"
  /\ search' = [fn |-> "findAdjacentSeats", count |-> count, options |-> NoOptions,
                result |-> findAdjacentSeats(venue, count)]
  /\ venue' = VenueAfterRead(venue)
  /\ UNCHANGED <<storeVars, uiVars>>

\* A second findAdjacentSeats(venue, count) with the count of the first.
FindAdjacentAgain ==
  /\ search.fn = "findAdjacentSeats"
  /\ search' = [search EXCEPT !.fn = "findAdjacentSeatsAgain",
                              !.result = findAdjacentSeats(venue, search.count)]
  /\ venue' = VenueAfterRead(venue)
  /\ UNCHANGED <<storeVars, uiVars>>

\* findAdjacentSeatsWithPreferences(venue, count, options)
FindAdjacentWithPreferences(count, options) ==
  /\ search.fn = "none"
  /\ search' = [fn |-> "findAdjacentSeatsWithPreferences", count |-> count,
                options |-> options,
                result |-> findAdjacentSeatsWithPreferences(venue, count, options)]
  /\ venue' = VenueAfterRead(venue)
  /\ UNCHANGED <<storeVars, uiVars>>

\* handleFindAdjacent, nothing found: getAdjacentSeatsStats(venue)
GetStats ==
  /\ search.fn = "none"
  /\ search' = [fn |-> "getAdjacentSeatsStats", count |-> 0, options |-> NoOptions,
                result |-> [kind |-> "stats", seats |-> <<>>,
                            stats |-> getAdjacentSeatsStats(venue)]]
  /\ venue' = VenueAfterRead(venue)
  /\ UNCHANGED <<storeVars, uiVars>>

InitFinder ==
  /\ MountedStore(Absent, NoFault)
  /\ venue \in Venues
  /\ search = NoSearch
  /\ NoInterface

NextFinder ==
  \/ \E count \in Counts : FindAdjacent(count)
  \/ FindAdjacentAgain
  \/ \E count \in Counts, options \in OptionChoices :
       FindAdjacentWithPreferences(count, options)
  \/ GetStats

SpecFinder == InitFinder /\ [][NextFinder]_vars

\* ---------------------------------------------------------------- seat map
\* A seat as the seat map reads it: id, status and the layout coordinates.
MapSeat(id, st, x, y) == [id |-> id, status |-> st, x |-> x, y |-> y]

\* sections.flatMap(s => s.rows.flatMap(r => r.seats)): the flattening order.
RECURSIVE FlatRows(_)
FlatRows(rows) ==
  IF rows = <<>> THEN <<>> ELSE rows[1].seats \o FlatRows(Tail(rows))

RECURSIVE allSeats(_)
allSeats(v) ==
  IF v = <<>> THEN <<>> ELSE FlatRows(v[1].rows) \o allSeats(Tail(v))

Greatest(S) == CHOOSE a \in S : \A b \in S : b <= a

\* seatMap.get(id)?.index: Map.set keeps the last index written for an id.
\* Indexes are those of the code, counted from 0; -1 stands for undefined.
seatMapIndex(seats, id) ==
  LET found == {i \in 1..Len(seats) : seats[i].id = id}
  IN  IF found = {} THEN -1 ELSE Greatest(found) - 1

\* seatMap.get(id)?.index ?? focusedSeatIndex, with the row position (from 0)
\* of the seat returned in place of its flattening-order index.
IndexOrFocused_RowPosition(seats, row, k, focused) == k - 1

\* seatMap.get(row[k].id)?.index ?? focusedSeatIndex, k counted from 1.
IndexOrFocused(seats, row, k, focused) ==
  LET index == seatMapIndex(seats, row[k].id)
  IN  IF index = -1 THEN focused ELSE index

\* row.sort((a, b) => a.x - b.x): a stable sort by x.
RECURSIVE InsertByX(_, _)
InsertByX(sorted, seat) ==
  IF sorted = <<>> THEN <<seat>>
  ELSE IF sorted[Len(sorted)].x <= seat.x THEN Append(sorted, seat)
  ELSE Append(InsertByX(SubSeq(sorted, 1, Len(sorted) - 1), seat),
              sorted[Len(sorted)])

RECURSIVE SortByX(_)
SortByX(seats) ==
  IF seats = <<>> THEN <<>>
  ELSE InsertByX(SortByX(SubSeq(seats, 1, Len(seats) - 1)), seats[Len(seats)])

\* seatGrid.get(y) || []: the seats of pixel-row y, pushed in flattening
\* order and then sorted by x.
seatGrid(seats, y) ==
  LET SameY(seat) == seat.y = y IN SortByX(SelectSeq(seats, SameY))

RECURSIVE Ascending(_)
Ascending(S) ==
  IF S = {} THEN <<>>
  ELSE LET least == CHOOSE a \in S : \A b \in S : a <= b
       IN  <<least>> \o Ascending(S \ {least})

\* Array.from(grid.keys()).sort((a, b) => a - b)
sortedYCoords(seats) == Ascending({seats[i].y : i \in 1..Len(seats)})

\* currentRow.findIndex(s => s.id === id), from 0; -1 when there is none.
findIndex(row, id) ==
  LET found == {i \in 1..Len(row) : row[i].id = id}
  IN  IF found = {} THEN -1 ELSE Least(found) - 1

\* sortedYCoords.indexOf(y), from 0; -1 when there is none.
indexOf(coords, y) ==
  LET found == {i \in 1..Len(coords) : coords[i] = y}
  IN  IF found = {} THEN -1 ELSE Least(found) - 1

\* The reduce callback with <= : of equally near seats the last one is kept.
Nearer_OrEqual(seat, closest, currentX) ==
  Abs(seat.x - currentX) <= Abs(closest.x - currentX)

\* Math.abs(seat.x - currentX) < Math.abs(closest.x - currentX)
Nearer(seat, closest, currentX) ==
  Abs(seat.x - currentX) < Abs(closest.x - currentX)

\* row.reduce((closest, seat) => nearer ? seat : closest) from position k on,
\* closest being the position kept so far; without an initial value the
\* reduction starts from the first seat of the row.
RECURSIVE ReduceClosest(_, _, _, _)
ReduceClosest(row, k, closest, currentX) ==
  IF k > Len(row) THEN closest
  ELSE ReduceClosest(row, k + 1,
                     IF Nearer(row[k], row[closest], currentX) THEN k ELSE closest,
                     currentX)

closestSeat(row, currentX) == ReduceClosest(row, 2, 1, currentX)

Directions == {"left", "right", "up", "down"}

\* case 'right' without the wrap: at the end of the row the focus stays.
StepRight_NoWrap(seats, currentRow, currentIndex, focused) ==
  IF currentIndex < Len(currentRow) - 1
  THEN IndexOrFocused(seats, currentRow, currentIndex + 2, focused)
  ELSE focused

\* case 'right'
StepRight(seats, currentRow, currentIndex, focused) ==
  IF currentIndex < Len(currentRow) - 1
  THEN IndexOrFocused(seats, currentRow, currentIndex + 2, focused)
  ELSE IF Len(currentRow) > 0
  THEN IndexOrFocused(seats, currentRow, 1, focused)
  ELSE focused

\* case 'left' without the wrap: at the start of the row the focus stays.
StepLeft_NoWrap(seats, currentRow, currentIndex, focused) ==
  IF currentIndex > 0
  THEN IndexOrFocused(seats, currentRow, currentIndex, focused)
  ELSE focused

\* case 'left'
StepLeft(seats, currentRow, currentIndex, focused) ==
  IF currentIndex > 0
  THEN IndexOrFocused(seats, currentRow, currentIndex, focused)
  ELSE IF Len(currentRow) > 0
  THEN IndexOrFocused(seats, currentRow, Len(currentRow), focused)
  ELSE focused

\* The seat of pixel-row y nearest to currentX, as a flattening-order index.
NearestInRow(seats, y, currentX, focused) ==
  LET row == seatGrid(seats, y)
  IN  IndexOrFocused(seats, row, closestSeat(row, currentX), focused)

\* case 'up'
StepUp(seats, coords, currentYIndex, currentX, focused) ==
  IF currentYIndex > 0
  THEN NearestInRow(seats, coords[currentYIndex], currentX, focused)
  ELSE IF Len(coords) > 0
  THEN NearestInRow(seats, coords[Len(coords)], currentX, focused)
  ELSE focused

\* case 'down'
StepDown(seats, coords, currentYIndex, currentX, focused) ==
  IF currentYIndex < Len(coords) - 1
  THEN NearestInRow(seats, coords[currentYIndex + 2], currentX, focused)
  ELSE IF Len(coords) > 0
  THEN NearestInRow(seats, coords[1], currentX, focused)
  ELSE focused

\* const findNearestSeat = (currentSeat, direction): number, on the seat
\* index built from `seats` and with focusedSeatIndex = focused.
findNearestSeat(seats, focused, currentSeat, direction) ==
  LET currentRow == seatGrid(seats, currentSeat.y)
      coords == sortedYCoords(seats)
  IN  CASE direction = "left" ->
             StepLeft(seats, currentRow, findIndex(currentRow, currentSeat.id), focused)
        [] direction = "right" ->
             StepRight(seats, currentRow, findIndex(currentRow, currentSeat.id), focused)
        [] direction = "up" ->
             StepUp(seats, coords, indexOf(coords, currentSeat.y), currentSeat.x, focused)
        [] direction = "down" ->
             StepDown(seats, coords, indexOf(coords, currentSeat.y), currentSeat.x, focused)
        [] OTHER -> focused

\* ---- the seat map on a venue, with the selection store behind it
\* Layout coordinates of the venues the seat map is given.
XCoords == {1, 2, 3}

YCoords == {1, 2, 3}

Positions == XCoords \X YCoords

\* The seat drawn at position p = <<x, y>>; the seat in the middle is sold.
SeatAt(p) ==
  MapSeat(Cardinality(XCoords) * (p[2] - 1) + p[1],
          IF p = <<2, 2>> THEN "sold" ELSE "available", p[1], p[2])

\* The logical rows of the section that covers the columns B of a layout with
\* seats at the positions P: one row per y, its seats in ascending x.
BlockRows(P, B) ==
  LET ys == Ascending({p[2] : p \in {q \in P : q[1] \in B}})
  IN  [k \in 1..Len(ys) |->
         LET xs == Ascending({p[1] : p \in {q \in P : q[1] \in B /\ q[2] = ys[k]}})
         IN  Row(k, [j \in 1..Len(xs) |-> SeatAt(<<xs[j], ys[k]>>)])]

\* Two sections side by side, the right-hand one listed first: a pixel-row
\* runs across both, and its x order is not the flattening order.
MapVenue(P) ==
  <<Section(SectionIds[1], BlockRows(P, {Greatest(XCoords)})),
    Section(SectionIds[2], BlockRows(P, XCoords \ {Greatest(XCoords)}))>>

MapVenues ==
  {MapVenue(P) : P \in {Q \in SUBSET Positions : Cardinality(Q) \in 1..MaxMapSeats}}

\* const currentSeat = allSeats[focusedSeatIndex]; if (!currentSeat) return;
HasCurrentSeat == focusedSeatIndex + 1 \in 1..Len(allSeats(venue))

currentSeat == allSeats(venue)[focusedSeatIndex + 1]

\* An event that only moves the focus: setFocusedSeatIndex(index).  The
\* store is not called; op records the event and the index it started from.
FocusOnly(op, index) ==
  /\ focusedSeatIndex' = index
  /\ lastOp' = op
  /\ storageLog' = <<>>
  /\ uncaught' = FALSE
  /\ UNCHANGED <<selectedSeats, selectedIds, isInitialized, isClearing, storage,
                 events, refSeats, finderVars, toasts, loader>>

\* handleKeyDown, case 'ArrowLeft' | 'ArrowRight' | 'ArrowUp' | 'ArrowDown'
ArrowKey(direction) ==
  /\ HasCurrentSeat
  /\ FocusOnly(Op(direction, focusedSeatIndex),
               findNearestSeat(allSeats(venue), focusedSeatIndex, currentSeat,
                               direction))

\* case 'Home': setFocusedSeatIndex(0)
HomeIndex(seats) == 0

\* case 'End': setFocusedSeatIndex(allSeats.length - 1)
EndIndex(seats) == Len(seats) - 1

HomeKey ==
  /\ HasCurrentSeat
  /\ FocusOnly(Op("Home", focusedSeatIndex), HomeIndex(allSeats(venue)))

EndKey ==
  /\ HasCurrentSeat
  /\ FocusOnly(Op("End", focusedSeatIndex), EndIndex(allSeats(venue)))

\* case 'Enter' | ' ' | 's' | 'S': onSeatClick(currentSeat) if it is available
SelectKey ==
  /\ HasCurrentSeat
  /\ IF currentSeat.status = "available"
     THEN /\ events < MaxMapEvents
          /\ ToggleSeatOn(Seat(currentSeat.id, currentSeat.status), NoFault)
          /\ UNCHANGED uiVars
     ELSE FocusOnly(Op("Enter", focusedSeatIndex), focusedSeatIndex)

\* case 'Escape': clearSelection()
EscapeKey ==
  /\ HasCurrentSeat
  /\ events < MaxMapEvents
  /\ ClearOn(NoFault)
  /\ UNCHANGED uiVars

\* handleClick on the rect of the k-th seat drawn: seatMap.get(seatId), then
\* onSeatClick(seat), setFocusedSeatIndex(index).
handleClick(k) ==
  LET seats == allSeats(venue)
      index == seatMapIndex(seats, seats[k].id)
      seat == seats[index + 1]
  IN  /\ events < MaxMapEvents
      /\ ToggleSeatOn(Seat(seat.id, seat.status), NoFault)
      /\ focusedSeatIndex' = index
      /\ UNCHANGED <<toasts, loader>>

\* handleMouseMove over the rect of the k-th seat drawn, past the throttle.
handleMouseMove(k) ==
  LET seats == allSeats(venue)
  IN  FocusOnly(Op("hover", focusedSeatIndex), seatMapIndex(seats, seats[k].id))

InitNavigator ==
  /\ MountedStore(Absent, NoFault)
  /\ venue \in MapVenues
  /\ search = NoSearch
  /\ NoInterface

NextNavigator ==
  \/ \E direction \in Directions : ArrowKey(direction)
  \/ HomeKey
  \/ EndKey
  \/ SelectKey
  \/ EscapeKey
  \/ \E k \in 1..Len(allSeats(venue)) : handleClick(k)
  \/ \E k \in 1..Len(allSeats(venue)) : handleMouseMove(k)

SpecNavigator == InitNavigator /\ [][NextNavigator]_vars

\* ------------------------------------------------------- selection summary
\* A toast of react-hot-toast: which message, and the count it shows.
Toast(message, count) == [message |-> message, count |-> count]

\* useEffect(() => { ... }, [selectedSeats.length]) of SelectionSummary, run
\* after a render in which the length went from prevCount to currentCount;
\* prevSelectedCount.current is the length the effect last saw.
SelectionToasts(prevCount, currentCount) ==
  IF currentCount > prevCount
  THEN IF currentCount = LimitToastCount
       THEN <<Toast("Selection limit reached", currentCount)>>
       ELSE <<Toast("Seat added", currentCount)>>
  ELSE IF currentCount < prevCount /\ currentCount > 0
  THEN <<Toast("Seat removed", currentCount)>>
  ELSE IF currentCount = 0 /\ prevCount > 0
  THEN <<Toast("Selection cleared", 0)>>
  ELSE <<>>

\* The toasts of an event: those its handler raised, then those of the toast
\* effect of the render that follows.
ToastsAfter(raised) ==
  /\ toasts' = raised \o SelectionToasts(Len(selectedSeats), Len(selectedSeats'))
  /\ UNCHANGED <<focusedSeatIndex, loader>>

\* A click on a seat of the map with the summary panel shown.
SeatClicked(seat) ==
  /\ events < MaxSummaryEvents
  /\ ToggleSeatOn(seat, NoFault)
  /\ ToastsAfter(<<>>)

\* Escape on the map with the summary panel shown.
EscapePressed ==
  /\ events < MaxSummaryEvents
  /\ ClearOn(NoFault)
  /\ ToastsAfter(<<>>)

\* handleFindAdjacent, a block found: onAdjacentSeatsFound(result) and
\* toast.success(`Found ${seatCount} seats ...`).
AdjacentSeatsSelected(seats) ==
  /\ events < MaxSummaryEvents
  /\ AdjacentSeatsFoundOn(seats, NoFault)
  /\ ToastsAfter(<<Toast("Found seats", Len(seats))>>)

\* ---- prices: the label of the seat map and the total of the summary
\* A price tier outside both tables.
UnknownTier == 99

\* seat.priceTier of the seats of the venue shown: the four tiers of the
\* tables and the unknown one, in turn.
priceTier(seat) == <<1, 2, 3, 4, UnknownTier>>[((seat.id - 1) % 5) + 1]

\* The text `$${amount}`.
Dollars(amount) == [text |-> "$", amount |-> amount]

PriceUnavailable == [text |-> "Price unavailable", amount |-> 0]

\* SeatMap: const PRICE_TIERS: Record<number, string>
PRICE_TIERS_SeatMap ==
  (1 :> Dollars(200)) @@ (2 :> Dollars(150)) @@ (3 :> Dollars(100)) @@ (4 :> Dollars(75))

\* SelectionSummary: const PRICE_TIERS
PRICE_TIERS_Summary == (1 :> 200) @@ (2 :> 170) @@ (3 :> 100) @@ (4 :> 50)

\* getAriaLabel: const price = PRICE_TIERS[seat.priceTier] || 'Price unavailable'
ariaPrice(seat) ==
  IF priceTier(seat) \in DOMAIN PRICE_TIERS_SeatMap
  THEN PRICE_TIERS_SeatMap[priceTier(seat)]
  ELSE PriceUnavailable

\* PRICE_TIERS[seat.priceTier as keyof typeof PRICE_TIERS] || 0
chargedPrice(seat) ==
  IF priceTier(seat) \in DOMAIN PRICE_TIERS_Summary
  THEN PRICE_TIERS_Summary[priceTier(seat)]
  ELSE 0

\* selectedSeats.reduce((sum, seat) => sum + (PRICE_TIERS[...] || 0), 0),
\* from position k on with the sum so far.
RECURSIVE ReduceSubtotal(_, _, _)
ReduceSubtotal(seats, k, sum) ==
  IF k > Len(seats) THEN sum
  ELSE ReduceSubtotal(seats, k + 1, sum + chargedPrice(seats[k]))

subtotal(seats) == ReduceSubtotal(seats, 1, 0)

\* The panel is mounted once the venue is loaded, on the restored selection:
\* prevSelectedCount starts from its length and no toast is raised.
InitSummary == InitRestore

NextSummary ==
  \/ \E seat \in Seats : SeatClicked(seat)
  \/ EscapePressed
  \/ \E seats \in FoundBlocks : AdjacentSeatsSelected(seats)

SpecSummary == InitSummary /\ [][NextSummary]_vars

\* ------------------------------------------------------------------ useVenue
\* A seat of venue.json.  sectionId, sectionLabel and rowIndex may be missing
\* from the file ("" and -1 stand for undefined) or hold anything.
RawSeat(id, sectionId, sectionLabel, rowIndex) ==
  [id |-> id, sectionId |-> sectionId, sectionLabel |-> sectionLabel,
   rowIndex |-> rowIndex]

RawSection(id, label, rows) == [id |-> id, label |-> label, rows |-> rows]

\* The seats spread after the metadata: a value of the file wins.
EnrichSeat_FileWins(seat, section, row) ==
  [seat EXCEPT !.sectionId = IF @ = "" THEN section.id ELSE @,
               !.sectionLabel = IF @ = "" THEN section.label ELSE @,
               !.rowIndex = IF @ = -1 THEN row.index ELSE @]

\* { ...seat, sectionId: section.id, sectionLabel: section.label,
\*   rowIndex: row.index }
EnrichSeat(seat, section, row) ==
  [seat EXCEPT !.sectionId = section.id,
               !.sectionLabel = section.label,
               !.rowIndex = row.index]

\* rows: section.rows.map(row => ({ ...row, seats: row.seats.map(...) }))
EnrichRow(row, section) ==
  [row EXCEPT !.seats = [k \in 1..Len(row.seats) |->
                           EnrichSeat(row.seats[k], section, row)]]

\* sections: data.sections.map(section => ({ ...section, rows: ... }))
EnrichSections(sections) ==
  [i \in 1..Len(sections) |->
     [sections[i] EXCEPT !.rows = [j \in 1..Len(sections[i].rows) |->
                                     EnrichRow(sections[i].rows[j], sections[i])]]]

\* The body of a response: null, or an object with the fields
\* validateVenueData looks at ("" stands for a missing string).
NullData == [kind |-> "null"]

VenueData(venueId, name, hasMap, sectionsIsArray, sections) ==
  [kind |-> "object", venueId |-> venueId, name |-> name, hasMap |-> hasMap,
   sectionsIsArray |-> sectionsIsArray, sections |-> sections]

\* const validateVenueData = (data): void, as the message it throws.
validateVenueData(data) ==
  IF data.kind # "object" THEN "Invalid venue data: not an object"
  ELSE IF data.venueId = "" THEN "Invalid venue data: missing or invalid venueId"
  ELSE IF data.name = "" THEN "Invalid venue data: missing or invalid name"
  ELSE IF ~data.hasMap THEN "Invalid venue data: missing or invalid map"
  ELSE IF ~data.sectionsIsArray THEN "Invalid venue data: sections must be an array"
  ELSE "valid"

\* What fetch("/venue.json") comes back with.
Rejected == [kind |-> "rejected"]

NotOk == [kind |-> "notOk"]

BadJson == [kind |-> "badJson"]

Json(data) == [kind |-> "json", data |-> data]

\* The try block of loadVenue after the fetch: the venue it hands to
\* setVenue, or the message its catch block hands to setError.
LoadResult(response) ==
  IF response.kind = "rejected"
  THEN [ok |-> FALSE, error |-> "An unexpected error occurred while loading venue data"]
  ELSE IF response.kind = "notOk"
  THEN [ok |-> FALSE, error |-> "Failed to load venue data"]
  ELSE IF response.kind = "badJson"
  THEN [ok |-> FALSE, error |-> "Failed to parse venue data: Invalid JSON format"]
  ELSE IF validateVenueData(response.data) # "valid"
  THEN [ok |-> FALSE, error |-> validateVenueData(response.data)]
  ELSE [ok |-> TRUE, venue |-> EnrichSections(response.data.sections)]

\* useState<Venue | null>(null)
NoVenue == [kind |-> "null"]

Loaded(sections) == [kind |-> "venue", sections |-> sections]

\* loadVenue up to its await: setLoading(true), setError(null), fetch(...).
\* The call keeps the retryCount of the render that created it.
IssueFetch(l, closureRetryCount) ==
  [l EXCEPT !.loading = TRUE, !.error = "", !.fetches = @ + 1,
            !.inflight = Append(@, closureRetryCount)]

\* useEffect(() => { loadVenue() }, [loadVenue]) after a render: loadVenue is
\* a new function when retryCount has changed, and only then.
LoadEffect(before, l) ==
  IF l.retryCount # before.retryCount THEN IssueFetch(l, l.retryCount) ELSE l

\* The state of useVenue after its first render and effect.
MountedLoader ==
  IssueFetch([phase |-> "mounted", venue |-> NoVenue, loading |-> TRUE,
              error |-> "", retryCount |-> 0, fetches |-> 0, inflight |-> <<>>,
              timers |-> 0, loadedAt |-> 0, retried |-> FALSE, last |-> "mount",
              manual |-> FALSE, firstFailed |-> FALSE],
             0)

\* The i-th call of loadVenue in flight gets its response.
\* loadedAt records the number of fetches issued when a load first succeeded,
\* firstFailed that the call made on mount was the first to settle and failed.
Resolved(l, i, response) ==
  LET r == LoadResult(response)
      closureRetryCount == l.inflight[i]
      rest == [l EXCEPT !.inflight = SubSeq(@, 1, i - 1) \o SubSeq(@, i + 1, Len(@)),
                        !.last = "resolved"]
  IN  IF r.ok
      THEN LoadEffect(l, [rest EXCEPT !.venue = Loaded(r.venue),
                                      !.loading = FALSE,
                                      !.retryCount = 0,
                                      !.loadedAt = IF @ = 0 THEN l.fetches ELSE @])
      ELSE [rest EXCEPT !.error = r.error,
                        !.loading = FALSE,
                        !.firstFailed = (@ \/ (l.fetches = 1 /\ l.loadedAt = 0)),
                        !.timers = IF closureRetryCount < MAX_RETRIES
                                   THEN @ + 1 ELSE @]

\* setTimeout(() => setRetryCount(prev => prev + 1), delay) fires.
TimerFired(l) ==
  LoadEffect(l, [l EXCEPT !.timers = @ - 1, !.retryCount = @ + 1,
                          !.last = "timer"])

\* const retry = () => { setRetryCount(0); loadVenue(); }
Retried(l) ==
  LoadEffect(l, [IssueFetch(l, l.retryCount) EXCEPT
                   !.retryCount = 0,
                   !.retried = (@ \/ l.loadedAt # 0),
                   !.manual = TRUE,
                   !.last = "retry"])

SeatIdsOfFile == {"A-1-01", "A-1-02"}

\* Seats as venue.json may hold them: without the metadata, or with metadata
\* of its own.
RawSeats ==
  {RawSeat(id, "", "", -1) : id \in SeatIdsOfFile}
    \cup {RawSeat("A-9-09", "Z", "Stale", 7)}

\* Row indexes are data of the file, not positions in the array.
RawRowsChoices ==
  {<<>>} \cup {<<Row(2, <<seat>>)>> : seat \in RawSeats}
    \cup {<<Row(1, <<>>), Row(3, <<RawSeat("A-1-01", "", "", -1), seat>>)>> :
            seat \in RawSeats}

RawSectionsChoices ==
  {<<>>}
    \cup {<<RawSection("A", "Lower Bowl A", rows)>> : rows \in RawRowsChoices}
    \cup {<<RawSection("A", "Lower Bowl A", <<Row(1, <<seat>>)>>),
            RawSection("B", "Upper Bowl B", rows)>> :
            seat \in RawSeats, rows \in RawRowsChoices}

Responses ==
  {Rejected, NotOk, BadJson, Json(NullData),
   Json(VenueData("", "Metropolis Arena", TRUE, TRUE, <<>>)),
   Json(VenueData("arena-01", "", TRUE, TRUE, <<>>)),
   Json(VenueData("arena-01", "Metropolis Arena", FALSE, TRUE, <<>>)),
   Json(VenueData("arena-01", "Metropolis Arena", TRUE, FALSE, <<>>))}
    \cup {Json(VenueData("arena-01", "Metropolis Arena", TRUE, TRUE, sections)) :
            sections \in RawSectionsChoices}

\* An event of useVenue that leaves the loader in the state l.
LoaderBecomes(l) ==
  /\ l.fetches <= MaxFetches
  /\ loader' = l
  /\ UNCHANGED <<storeVars, finderVars, focusedSeatIndex, toasts>>

FetchSettles(i, response) ==
  /\ i \in 1..Len(loader.inflight)
  /\ LoaderBecomes(Resolved(loader, i, response))

RetryTimerFires ==
  /\ loader.timers > 0
  /\ LoaderBecomes(TimerFired(loader))

retry == LoaderBecomes(Retried(loader))

InitVenue ==
  /\ MountedStore(Absent, NoFault)
  /\ venue = <<>>
  /\ search = NoSearch
  /\ focusedSeatIndex = 0
  /\ toasts = <<>>
  /\ loader = MountedLoader

NextVenue ==
  \/ \E i \in 1..MaxFetches, response \in Responses : FetchSettles(i, response)
  \/ RetryTimerFires
  \/ retry

SpecVenue == InitVenue /\ [][NextVenue]_vars

\* =================================================================== claims

\* C1: starting from an empty Selection Set, after any sequence of toggleSeat
\* and clearSelection calls the number of selected seats never exceeds 8.
C1_SizeNeverExceedsCap == Len(selectedSeats) <= MAX_SELECTED

\* The cap is reached by an accepted toggle.
C1_Witness ==
  /\ lastOp = Op("toggle", "added")
  /\ Len(selectedSeats) = MAX_SELECTED

\* C2: in every reachable state, also right after the selection has been
\* restored from whatever array the storage key held, 0 <= size <= 8.
C2_SizeWithinBoundsAfterRestore ==
  /\ 0 <= Len(selectedSeats)
  /\ Len(selectedSeats) <= MAX_SELECTED
  /\ Cardinality(selectedIds) <= MAX_SELECTED

\* C3: with exactly 8 seats selected, toggleSeat on an available seat that is
\* not a member leaves the Selection Set as it is (same members, same order)
\* and isSelected of that seat's id stays false.
C3_NinthSeatRejected ==
  [][\A seat \in AvailableSeats :
       (/\ Len(selectedSeats) = MAX_SELECTED
        /\ ~HasId(selectedSeats, seat.id)
        /\ ToggleSeatEvent(seat))
       => (/\ selectedSeats' = selectedSeats
           /\ ~isSelected(seat.id)
           /\ ~(isSelected(seat.id))')]_vars

C3_Witness ==
  /\ lastOp = Op("toggle", "rejected")
  /\ Len(selectedSeats) = MAX_SELECTED
  /\ \E id \in SeatIds : ~isSelected(id)

\* C4: toggleSeat with a reserved, sold or held seat changes nothing: not the
\* Selection Set, not the isSelected answers, not the persisted value, also
\* when a seat with the same id is a member of the Selection Set.
C4_UnavailableSeatIsNoOp ==
  [][lastOp'.kind = "toggle"
     => \A seat \in Seats \ AvailableSeats :
          ToggleSeatEvent(seat)
          => UNCHANGED <<selectedSeats, selectedIds, storage>>]_vars

C4_Witness ==
  /\ lastOp = Op("toggle", "ignoredMember")
  /\ selectedSeats # <<>>

\* selectedSeats with its i-th element taken out.
WithoutIndex(seq, i) == SubSeq(seq, 1, i - 1) \o SubSeq(seq, i + 1, Len(seq))

\* C5: toggleSeat with an available seat whose id is a member removes that
\* seat and only that seat (size - 1, the others keep their order), at every
\* size 1..8; after a deselection at the cap another available seat is
\* appended.
C5_DeselectRemovesExactlyThatSeat ==
  [][\A seat \in AvailableSeats :
       ToggleSeatEvent(seat)
       => (/\ HasId(selectedSeats, seat.id)
              => (/\ Len(selectedSeats') = Len(selectedSeats) - 1
                  /\ \E i \in 1..Len(selectedSeats) :
                       /\ selectedSeats[i].id = seat.id
                       /\ selectedSeats' = WithoutIndex(selectedSeats, i)
                  /\ ~HasId(selectedSeats', seat.id))
           /\ (~HasId(selectedSeats, seat.id) /\ Len(selectedSeats) < MAX_SELECTED)
              => selectedSeats' = Append(selectedSeats, seat))]_vars

\* A seat has just been deselected from a full selection.
C5_Witness ==
  /\ lastOp = Op("toggle", "removed")
  /\ Len(selectedSeats) = MAX_SELECTED - 1

\* C6 (as stated): for any available seat, toggleSeat(seat) twice in a row
\* returns the Selection Set to its prior state: the same ordered list.
C6_RoundTripSameList ==
  [][\A seat \in AvailableSeats :
       ToggleTwiceEvent(seat) => selectedSeats' = selectedSeats]_vars

\* C6 (amended): toggleSeat(seat) twice in a row leaves the same members and
\* the same size; the list is the prior list when the seat was not a member,
\* and the prior list with that seat moved to its end when it was.
C6_RoundTripSameMembers ==
  [][\A seat \in AvailableSeats :
       ToggleTwiceEvent(seat)
       => (/\ Range(selectedSeats') = Range(selectedSeats)
           /\ Len(selectedSeats') = Len(selectedSeats)
           /\ ~HasId(selectedSeats, seat.id) => selectedSeats' = selectedSeats
           /\ HasId(selectedSeats, seat.id)
              => \E i \in 1..Len(selectedSeats) :
                   /\ selectedSeats[i].id = seat.id
                   /\ selectedSeats' = Append(WithoutIndex(selectedSeats, i), seat))]_vars

\* A member that was not last has been toggled twice.
C6_Witness ==
  /\ lastOp = Op("toggleTwice", "removed")
  /\ Len(selectedSeats) >= 2
  /\ selectedSeats[Len(selectedSeats)].id < selectedSeats[1].id

\* C7: in every reachable state isSelected(id) is true exactly when the
\* Selection Set holds a seat with that id (after toggle, clear and restore).
C7_IsSelectedMatchesSelection ==
  \A id \in SeatIds \cup selectedIds \cup IdsOf(selectedSeats) :
    isSelected(id) <=> HasId(selectedSeats, id)

C7_Witness ==
  /\ lastOp = Op("toggle", "removed")
  /\ selectedIds # {}
  /\ \E id \in SeatIds : ~isSelected(id)

\* C8: clearSelection, in any state, leaves the Selection Set empty and the
\* storage key absent, and the key stays absent until the next successful
\* toggle: only an accepted toggle makes an absent key present again.
C8_ClearLeavesKeyAbsentUntilToggle ==
  [][/\ ClearEvent => (selectedSeats' = <<>> /\ storage' = Absent)
     /\ (storage = Absent /\ storage' # Absent)
        => (/\ lastOp'.kind \in {"toggle", "toggleTwice", "toggleBatch"}
            /\ selectedSeats' # selectedSeats \/ lastOp'.kind # "toggle")]_vars

\* C9: after a successful toggle (an add or a remove) handled as its own
\* event, the value under the storage key deserializes to exactly the current
\* Selection Set, the empty list included.
C9_StorageMatchesAfterToggle ==
  (lastOp.kind = "toggle" /\ lastOp.outcome \in {"added", "removed"})
  => /\ storage.present
     /\ JSONparse(storage.text) = [kind |-> "array", value |-> selectedSeats]

\* The last seat has been deselected: the key holds the empty array.
C9_Witness ==
  /\ lastOp = Op("toggle", "removed")
  /\ selectedSeats = <<>>
  /\ storage = Stored(<<LBRACKET, RBRACKET>>)

\* C10: a reload restores a persisted selection unchanged (same seats, same
\* order), and a reload after clearSelection starts with an empty selection.
C10_ReloadRestoresPersisted ==
  [][Reload
     => (/\ storage.present => selectedSeats' = selectedSeats
         /\ (lastOp.kind = "toggle" /\ lastOp.outcome \in {"added", "removed"})
            => (storage.present /\ selectedSeats' = selectedSeats)
         /\ lastOp.kind = "clear" => selectedSeats' = <<>>)]_vars

\* A reload has restored a selection of several seats.
C10_Witness ==
  /\ lastOp = Op("reload", "restored")
  /\ Len(selectedSeats) >= 2


\* C11: when at startup the persistence key holds a value that is not JSON or
\* that parses to something other than an array, the Selection Set starts
\* empty, no error escapes the store, and once startup is over the key is
\* absent from storage.
C11_CorruptedEntryRemovedAtStartup ==
  (lastOp.kind \in {"init", "reload"} /\ lastOp.outcome = "corrupted")
    => /\ selectedSeats = <<>>
       /\ selectedIds = {}
       /\ ~uncaught
       /\ storage = Absent


\* The calls of the last event from its first setItem on: what the save of
\* that event did.
RECURSIVE SaveCalls(_)
SaveCalls(log) ==
  IF log = <<>> THEN <<>>
  ELSE IF log[1].call = "setItem" THEN log
  ELSE SaveCalls(Tail(log))

SetAttempts(log) == Cardinality({i \in 1..Len(log) : log[i].call = "setItem"})

\* C12 as stated: a write that fails with quota exhaustion is always followed
\* by the deletion of the key and exactly one more set attempt; a write that
\* fails otherwise is not retried; no save makes more than two set attempts
\* and no failure leaves the store.
C12_QuotaFailureAlwaysRetriedOnce ==
  LET save == SaveCalls(storageLog)
  IN  lastOp.kind \in {"toggle", "toggleBatch"}
        => /\ ~uncaught
           /\ SetAttempts(storageLog) <= 2
           /\ (save # <<>> /\ save[1].result = "other") => Len(save) = 1
           /\ (save # <<>> /\ save[1].result = "quota")
                => /\ Len(save) = 3
                   /\ save[2] = Call("removeItem", "ok")
                   /\ save[3].call = "setItem"

\* C12, amended: a write that fails with quota exhaustion is followed by the
\* deletion of the key; when the deletion succeeds exactly one more set
\* attempt follows, when the deletion itself fails no retry is made.  A write
\* that fails otherwise is not retried and nothing is deleted.  No save makes
\* more than two set attempts, the selection in memory is what the calls
\* made it, and no failure leaves the store.
C12_QuotaFailureRetriedOnceAfterDelete ==
  LET save == SaveCalls(storageLog)
  IN  /\ ~uncaught
      /\ SetAttempts(storageLog) <= 2
      /\ (save # <<>> /\ save[1].result = "ok") => Len(save) = 1
      /\ (save # <<>> /\ save[1].result = "other") => Len(save) = 1
      /\ (save # <<>> /\ save[1].result = "quota")
           => /\ Len(save) \in {2, 3}
              /\ save[2].call = "removeItem"
              /\ (save[2].result = "throws" => Len(save) = 2)
              /\ (save[2].result = "ok"
                    => Len(save) = 3 /\ save[3].call = "setItem")
      /\ (lastOp.kind \in {"toggle", "toggleBatch"} /\ save # <<>>
            /\ save[Len(save)] = Call("setItem", "ok"))
           => storage = Stored(JSONstringify(selectedSeats))

\* A toggle added a seat, its save ran out of quota, the key was deleted and
\* the retry failed too: the seat is selected and nothing is stored.
C12_Witness ==
  /\ lastOp = Op("toggle", "added")
  /\ storageLog = <<Call("setItem", "quota"), Call("removeItem", "ok"),
                    Call("setItem", "throws")>>
  /\ selectedSeats # <<>>
  /\ storage = Absent


ValidSearch == search.fn # "none" /\ search.count \in MIN_ADJACENT..MAX_ADJACENT

\* The rows of the venue, whatever their section.
VenueRows == {RowsInOrder(venue)[k].row : k \in 1..Len(RowsInOrder(venue))}

\* C14: for every venue and every count c in 2..8, a result of
\* findAdjacentSeats or findAdjacentSeatsWithPreferences has exactly c seats,
\* all seats of one row of the venue, every one available, in ascending col
\* order, each col being the previous col plus 1.
C14_ResultIsAdjacentBlock ==
  (ValidSearch /\ search.result.kind = "seats")
    => LET seats == search.result.seats
       IN  /\ Len(seats) = search.count
           /\ \E row \in VenueRows :
                /\ \A i \in 1..Len(seats) : seats[i] \in Range(row.seats)
                /\ \A i \in 1..Len(seats) :
                     seats[i].rowIndex = row.index
           /\ \A i \in 1..Len(seats) : seats[i].status = "available"
           /\ \A i \in 2..Len(seats) : seats[i].col = seats[i - 1].col + 1

\* Three seats were found in a row stored from the highest col down that
\* also holds a sold seat.
C14_Witness ==
  /\ search.fn = "findAdjacentSeatsWithPreferences"
  /\ search.count = 3
  /\ search.result.kind = "seats"
  /\ \E row \in VenueRows :
       /\ Len(row.seats) = 5
       /\ row.seats[1].col = 5
       /\ \E i \in 1..5 : row.seats[i].status = "sold"


\* C15: findAdjacentSeats and findAdjacentSeatsWithPreferences throw for a
\* count below 2 or above 8, whatever the venue (an empty one included), and
\* so never return null for such a count; for a count from 2 to 8 they never
\* throw.
C15_ThrowsExactlyOutsideRange ==
  search.fn \in {"findAdjacentSeats", "findAdjacentSeatsAgain",
                 "findAdjacentSeatsWithPreferences"}
    => /\ (search.count < MIN_ADJACENT \/ search.count > MAX_ADJACENT)
            => search.result = Throws
       /\ search.count \in MIN_ADJACENT..MAX_ADJACENT
            => search.result.kind \in {"null", "seats"}

\* findAdjacentSeats was called with count 9 on a venue without sections.
C15_Witness ==
  /\ venue = <<>>
  /\ search.fn = "findAdjacentSeats"
  /\ search.count = MAX_ADJACENT + 1
  /\ search.result.kind = "throws"


\* The row has an available seat at each of the cols first .. first + n - 1.
HasAvailableRun(row, first, n) ==
  \A col \in first..(first + n - 1) :
    \E i \in 1..Len(row.seats) :
      row.seats[i].col = col /\ row.seats[i].status = "available"

\* Some row of the venue has n available seats with consecutive cols.
SomeRowHasRun(n) ==
  \E row \in VenueRows :
    \E i \in 1..Len(row.seats) : HasAvailableRun(row, row.seats[i].col, n)

\* C16: for every venue and count c in 2..8, findAdjacentSeats returns null
\* exactly when no row of the venue has c available seats with consecutive
\* cols: a missing col or an unavailable seat inside a span is never bridged,
\* and a row shorter than c does not keep another row from giving the result.
C16_NullIffNoRowHasRun ==
  (ValidSearch /\ search.fn = "findAdjacentSeats")
    => /\ search.result.kind = "null" <=> ~SomeRowHasRun(search.count)
       /\ search.result.kind = "seats" <=> SomeRowHasRun(search.count)

\* Available seats at cols 1, 2 and 4, 5 with no seat at col 3, count 3: null.
C16_Witness ==
  /\ search.fn = "findAdjacentSeats"
  /\ search.count = 3
  /\ search.result.kind = "null"
  /\ \E row \in VenueRows :
       /\ Len(row.seats) = 4
       /\ {row.seats[i].col : i \in 1..4} = {1, 2, 4, 5}
       /\ \A i \in 1..4 : row.seats[i].status = "available"


\* The candidate of each row for the count asked, in section-then-row order;
\* <<>> for a row that gives none.
RowCandidates ==
  [k \in 1..Len(RowsInOrder(venue)) |->
     findConsecutiveInRow(RowsInOrder(venue)[k].row.seats, search.count)]

\* C17: of the candidates of all rows, findAdjacentSeats returns the one with
\* the lowest mean priceTier; of several candidates with that mean it returns
\* the one met first in section-then-row order.
C17_LowestMeanFirstDiscoveredWins ==
  (ValidSearch /\ search.fn = "findAdjacentSeats" /\ search.result.kind = "seats")
    => \E k \in DOMAIN RowCandidates :
         /\ RowCandidates[k] # <<>>
         /\ search.result.seats = RowCandidates[k]
         /\ \A j \in DOMAIN RowCandidates :
              RowCandidates[j] # <<>>
                => /\ SumPriceTier(RowCandidates[k]) <= SumPriceTier(RowCandidates[j])
                   /\ j < k => SumPriceTier(RowCandidates[k]) < SumPriceTier(RowCandidates[j])

\* Three rows give a candidate: the first has the highest mean, the second
\* and the third (in the next section) tie on a fractional mean; the second
\* row's candidate is returned.
C17_Witness ==
  /\ search.fn = "findAdjacentSeats"
  /\ search.count = 2
  /\ search.result.kind = "seats"
  /\ Len(RowsInOrder(venue)) = 3
  /\ \A k \in 1..3 : RowCandidates[k] # <<>>
  /\ SumPriceTier(RowCandidates[1]) = 4
  /\ SumPriceTier(RowCandidates[2]) = 3
  /\ SumPriceTier(RowCandidates[3]) = 3
  /\ search.result.seats = RowCandidates[2]


\* The qualifying windows of the k-th row for the count asked.
RowWindows(k) ==
  LET sortedSeats == SortByCol(RowsInOrder(venue)[k].row.seats)
  IN  {SubSeq(sortedSeats, i, i + search.count - 1) :
         i \in QualifyingStarts(sortedSeats, search.count)}

\* C18: when a row has several qualifying windows of the size asked, the
\* window kept as the row's candidate has the lowest score (mean priceTier)
\* of them; when all have the same score it is the leftmost one.
C18_RowCandidateIsBestScoringWindow ==
  ValidSearch
    => \A k \in DOMAIN RowCandidates :
         RowCandidates[k] # <<>>
           => /\ RowCandidates[k] \in RowWindows(k)
              /\ \A w \in RowWindows(k) :
                   /\ SumPriceTier(RowCandidates[k]) <= SumPriceTier(w)
                   /\ SumPriceTier(RowCandidates[k]) = SumPriceTier(w)
                        => RowCandidates[k][1].col <= w[1].col


\* The rows of the sections of the venue whose id is sec.
RowsOfSection(sec) ==
  {RowsInOrder(venue)[k].row :
     k \in {j \in 1..Len(RowsInOrder(venue)) : RowsInOrder(venue)[j].section.id = sec}}

\* Some row of a section with id sec has n available seats with consecutive cols.
SectionHasRun(sec, n) ==
  \E row \in RowsOfSection(sec) :
    \E i \in 1..Len(row.seats) : HasAvailableRun(row, row.seats[i].col, n)

\* C19: findAdjacentSeatsWithPreferences with preferredSection = s returns
\* only seats of a row of the section whose id is s, and returns null when
\* that section has no qualifying window, whatever the other sections hold.
C19_PreferredSectionRestrictsSearch ==
  (ValidSearch /\ search.fn = "findAdjacentSeatsWithPreferences"
     /\ search.options.preferredSection # "")
    => LET sec == search.options.preferredSection
           seats == search.result.seats
       IN  /\ search.result.kind = "seats"
                => /\ \A i \in 1..Len(seats) : seats[i].sectionId = sec
                   /\ \E row \in RowsOfSection(sec) :
                        \A i \in 1..Len(seats) : seats[i] \in Range(row.seats)
           /\ ~SectionHasRun(sec, search.count) => search.result.kind = "null"

\* section-2 is preferred and has only sold seats, section-1 has two
\* adjacent available seats: the answer is null.
C19_Witness ==
  /\ search.fn = "findAdjacentSeatsWithPreferences"
  /\ search.count = 2
  /\ search.options.preferredSection = SectionIds[2]
  /\ search.result.kind = "null"
  /\ RowsOfSection(SectionIds[2]) # {}
  /\ SectionHasRun(SectionIds[1], 2)


\* Some row of the venue has a qualifying window whose seats all have price
\* tier p.
SomeWindowOfTier(p) ==
  \E k \in 1..Len(RowsInOrder(venue)) :
    \E w \in RowWindows(k) : \A i \in 1..Len(w) : w[i].priceTier = p

\* C20: findAdjacentSeatsWithPreferences with preferredPriceTier = p (and no
\* other option) returns seats of tier p whenever the venue has a qualifying
\* window of tier p, also when it has a qualifying window of another tier.
C20_PreferredTierWindowReturned ==
  (ValidSearch /\ search.fn = "findAdjacentSeatsWithPreferences"
     /\ search.options.preferredPriceTier # 0
     /\ search.options.preferredSection = ""
     /\ ~search.options.preferCenter
     /\ SomeWindowOfTier(search.options.preferredPriceTier))
    => /\ search.result.kind = "seats"
       /\ \A i \in 1..Len(search.result.seats) :
            search.result.seats[i].priceTier = search.options.preferredPriceTier


AvailableAt(row, col) ==
  \E i \in 1..Len(row.seats) :
    row.seats[i].col = col /\ row.seats[i].status = "available"

\* The maximal runs of available seats with consecutive cols, over all rows:
\* <<k, first, n>> is the run of n seats from col first in the k-th row, with
\* no available seat at the col before it nor at the col after it.
MaximalRuns ==
  {run \in UNION {{<<k, RowsInOrder(venue)[k].row.seats[i].col, n>> :
                     i \in 1..Len(RowsInOrder(venue)[k].row.seats),
                     n \in 1..Len(RowsInOrder(venue)[k].row.seats)} :
                  k \in 1..Len(RowsInOrder(venue))} :
     LET row == RowsInOrder(venue)[run[1]].row
     IN  /\ HasAvailableRun(row, run[2], run[3])
         /\ ~AvailableAt(row, run[2] - 1)
         /\ ~AvailableAt(row, run[2] + run[3])}

RunsOfLength(n) == {run \in MaximalRuns : run[3] = n}

\* C22: getAdjacentSeatsStats counts every maximal run of available seats
\* with consecutive cols that is at least 2 long exactly once, in the bucket
\* of its length; it counts no run of length 1; maxConsecutive is the
\* greatest such length over all rows, 0 when there is no such run.
C22_StatsCountMaximalRuns ==
  search.fn = "getAdjacentSeatsStats"
    => LET stats == search.result.stats
           lengths == {run[3] : run \in MaximalRuns} \ {1}
       IN  /\ DOMAIN stats.availableGroups = lengths
           /\ \A n \in lengths :
                stats.availableGroups[n] = Cardinality(RunsOfLength(n))
           /\ 1 \notin DOMAIN stats.availableGroups
           /\ stats.maxConsecutive \in lengths \cup {0}
           /\ \A n \in lengths : n <= stats.maxConsecutive
           /\ lengths = {} => stats.maxConsecutive = 0

\* Two runs of two seats apart from a sold seat, in one row: bucket 2 holds 2.
C22_Witness ==
  /\ search.fn = "getAdjacentSeatsStats"
  /\ 2 \in DOMAIN search.result.stats.availableGroups
  /\ search.result.stats.availableGroups[2] = 2
  /\ search.result.stats.maxConsecutive = 2
  /\ Len(RowsInOrder(venue)) = 1
  /\ RunsOfLength(1) = {}
  /\ \E i \in 1..Len(RowsInOrder(venue)[1].row.seats) :
       RowsInOrder(venue)[1].row.seats[i].status = "sold"

\* The seat the focus was on when the last key was pressed, and the seat it
\* is on now.
SeatBefore == allSeats(venue)[lastOp.outcome + 1]

SeatNow == allSeats(venue)[focusedSeatIndex + 1]

\* The x coordinates of the seats drawn in pixel-row y.
RowXs(y) ==
  {allSeats(venue)[i].x : i \in {j \in 1..Len(allSeats(venue)) : allSeats(venue)[j].y = y}}

\* The y coordinates of the pixel-rows of the venue.
RowYs == {allSeats(venue)[i].y : i \in 1..Len(allSeats(venue))}

\* The next value of S above a, or the least of S when a is the greatest.
After(S, a) ==
  IF \E b \in S : b > a THEN Least({b \in S : b > a}) ELSE Least(S)

\* The previous value of S below a, or the greatest of S when a is the least.
Before(S, a) ==
  IF \E b \in S : b < a THEN Greatest({b \in S : b < a}) ELSE Greatest(S)

\* C23: 'right' moves the focus to the next seat of the same pixel-row in
\* ascending x order and 'left' to the previous one; from the last seat of
\* the row 'right' wraps to the first, from the first 'left' wraps to the
\* last; the destination is never in another pixel-row.
C23_LeftRightMoveWithinPixelRow ==
  lastOp.kind \in {"left", "right"} =>
    /\ SeatNow.y = SeatBefore.y
    /\ SeatNow.x = IF lastOp.kind = "right"
                   THEN After(RowXs(SeatBefore.y), SeatBefore.x)
                   ELSE Before(RowXs(SeatBefore.y), SeatBefore.x)

\* 'right' pressed on the last seat of a pixel-row of three seats: the focus
\* is on the first seat of that row.
C23_Witness ==
  /\ lastOp.kind = "right"
  /\ Cardinality(RowXs(SeatBefore.y)) = 3
  /\ SeatBefore.x = Greatest(RowXs(SeatBefore.y))
  /\ SeatNow.x = Least(RowXs(SeatBefore.y))
  /\ SeatNow.y = SeatBefore.y

\* C24: 'up' ('down') moves the focus to the pixel-row just before (after)
\* the current one in the ascending list of distinct y, wrapping from the
\* first row to the last (from the last to the first); in that row it takes
\* the seat with the least |x - current x|, and of equally near seats the
\* first one of the row's scan, which runs in ascending x.
C24_UpDownTakeNearestSeatOfAdjacentRow ==
  lastOp.kind \in {"up", "down"} =>
    LET destY == IF lastOp.kind = "down" THEN After(RowYs, SeatBefore.y)
                 ELSE Before(RowYs, SeatBefore.y)
        distance == Abs(SeatNow.x - SeatBefore.x)
    IN  /\ SeatNow.y = destY
        /\ \A x \in RowXs(destY) :
             \/ Abs(x - SeatBefore.x) > distance
             \/ Abs(x - SeatBefore.x) = distance /\ SeatNow.x <= x

\* 'up' pressed with two seats of the row above equally near: the focus is
\* on the left one, which the scan of that row meets first.
C24_Witness ==
  /\ lastOp.kind = "up"
  /\ SeatNow.y < SeatBefore.y
  /\ SeatNow.x < SeatBefore.x
  /\ 2 * SeatBefore.x - SeatNow.x \in RowXs(SeatNow.y)

\* The seat an arrow key pressed on SeatBefore leads to: the one drawn at
\* the neighbouring x of its pixel-row, or the nearest one of the
\* neighbouring pixel-row.
IsDestination(seat) ==
  CASE lastOp.kind = "right" ->
         seat.y = SeatBefore.y /\ seat.x = After(RowXs(seat.y), SeatBefore.x)
    [] lastOp.kind = "left" ->
         seat.y = SeatBefore.y /\ seat.x = Before(RowXs(seat.y), SeatBefore.x)
    [] lastOp.kind \in {"up", "down"} ->
         /\ seat.y = IF lastOp.kind = "down" THEN After(RowYs, SeatBefore.y)
                     ELSE Before(RowYs, SeatBefore.y)
         /\ \A x \in RowXs(seat.y) :
              Abs(seat.x - SeatBefore.x) < Abs(x - SeatBefore.x)
                \/ (Abs(seat.x - SeatBefore.x) = Abs(x - SeatBefore.x) /\ seat.x <= x)
    [] OTHER -> FALSE

\* C25: on a fixed non-empty venue, after any sequence of arrow-key, Home,
\* End, click and hover events the focused index is a flattening-order index
\* (0 <= index < number of seats); after an arrow key allSeats[index] is the
\* destination seat of the move; Home sets the index to 0 and End to the
\* last index.
C25_FocusedIndexIsValidFlatteningIndex ==
  allSeats(venue) # <<>> =>
    /\ focusedSeatIndex \in 0..(Len(allSeats(venue)) - 1)
    /\ lastOp.kind \in Directions =>
         \A k \in 1..Len(allSeats(venue)) :
           IsDestination(allSeats(venue)[k]) => focusedSeatIndex = k - 1
    /\ lastOp.kind = "Home" => focusedSeatIndex = 0
    /\ lastOp.kind = "End" => focusedSeatIndex = Len(allSeats(venue)) - 1

\* 'left' pressed on the first seat of a pixel-row that runs across both
\* sections: the focus is on the last seat of the row, which is the first
\* seat of the flattening order.
C25_Witness ==
  /\ lastOp.kind = "left"
  /\ Cardinality(RowXs(SeatBefore.y)) = 3
  /\ SeatBefore.x = Least(RowXs(SeatBefore.y))
  /\ focusedSeatIndex = 0
  /\ SeatNow.x = Greatest(RowXs(SeatBefore.y))

\* C26: applying a found block of adjacent seats (handleAdjacentSeatsFound)
\* leaves, whatever the selection was before, a Selection Set that consists
\* of exactly the found seats in their ascending col order, and nothing else.
\* Stated on the handler at every reachable selection: the state it hands to
\* the render is the block, and it is a change, so that the render commits
\* it; and after the event the Selection Set is a found block.
C26_FoundBlockReplacesSelection ==
  /\ \A seats \in FoundBlocks :
       LET h == ToggleEach(clearSelection(Live(NoFault)), seats)
       IN  h.changed /\ h.seats = seats
  /\ lastOp.kind = "adjacent" => selectedSeats \in FoundBlocks

\* A found block has been applied over a selection that held other seats.
C26_Witness ==
  /\ lastOp.kind = "adjacent"
  /\ events >= 2
  /\ selectedSeats \in FoundBlocks
  /\ Len(selectedSeats) >= 2

\* C30: when the Selection Set is cleared and re-filled within one event, as
\* handleAdjacentSeatsFound does, then after the effects of the event the
\* value under the storage key deserializes to the new Selection Set, so that
\* a reload restores the found seats.
C30_RefilledSelectionIsPersisted ==
  lastOp.kind = "adjacent" =>
    /\ storage.present
    /\ JSONparse(storage.text) = [kind |-> "array", value |-> selectedSeats]
    /\ Mounted(storage, NoFault).seats = selectedSeats

\* C27: when 8 seats are selected and the user tries to select a further
\* available seat, the interface raises a warning about the 8-seat maximum:
\* the rejected attempt is not silent.
C27_RejectedAttemptRaisesWarning ==
  (lastOp = Op("toggle", "rejected") /\ Len(selectedSeats) = MAX_SELECTED) =>
    \E i \in 1..Len(toasts) : toasts[i].message = "Selection limit reached"

\* C28: every seat of a venue delivered by useVenue carries the id and the
\* label of the section that contains it as sectionId and sectionLabel, and
\* the index of the row that contains it as rowIndex, in all sections and rows.
C28_DeliveredSeatsCarryOwnerMetadata ==
  loader.venue.kind = "venue" =>
    \A i \in 1..Len(loader.venue.sections) :
      LET section == loader.venue.sections[i]
      IN  \A j \in 1..Len(section.rows) :
            \A k \in 1..Len(section.rows[j].seats) :
              LET seat == section.rows[j].seats[k]
              IN  /\ seat.sectionId = section.id
                  /\ seat.sectionLabel = section.label
                  /\ seat.rowIndex = section.rows[j].index

\* A venue of two sections has been delivered whose second section has a
\* row of index 3 at position 2, holding the seat that came with metadata of
\* its own in the file.
C28_Witness ==
  /\ loader.venue.kind = "venue"
  /\ Len(loader.venue.sections) = 2
  /\ Len(loader.venue.sections[2].rows) = 2
  /\ loader.venue.sections[2].rows[2].index = 3
  /\ loader.venue.sections[2].rows[2].seats[2].id = "A-9-09"
  /\ loader.venue.sections[2].rows[2].seats[2].sectionId = "B"

\* C29: once a venue load has succeeded, useVenue issues no further fetch of
\* /venue.json unless retry() is called, whether the load succeeded on the
\* first attempt or after automatic retries.
C29_NoFetchAfterSuccessWithoutRetry ==
  (loader.loadedAt # 0 /\ ~loader.retried) => loader.fetches = loader.loadedAt

\* C31: the store writes to storage only as the consequence of a successful
\* mutation: a toggle rejected by the cap, a toggle of a seat that is not
\* available and the initialization by itself make no storage write, so a key
\* that was absent at startup, or was deleted as corrupted, is still absent
\* once initialization is over.
C31_WritesOnlyAfterSuccessfulMutation ==
  /\ (lastOp.kind = "toggle"
        /\ lastOp.outcome \in {"rejected", "ignored", "ignoredMember"})
       => SetAttempts(storageLog) = 0
  /\ lastOp.kind \in {"init", "reload"} =>
       /\ SetAttempts(storageLog) = 0
       /\ lastOp.outcome = "corrupted" => storage = Absent

\* C32: every seat toggleSeat adds is available when it is added, and every
\* member of the Selection Set in any reachable state, members restored from
\* storage included, is a seat that was available when it was selected: the
\* status it was selected with is "available".
C32_MembersWereAvailableWhenSelected ==
  /\ \A i \in 1..Len(selectedSeats) : selectedSeats[i].status = "available"
  /\ lastOp = Op("toggle", "added")
       => selectedSeats[Len(selectedSeats)].status = "available"

\* What findAdjacentSeatsWithPreferences pushed to `results` in the last call.
PreferenceResults ==
  CollectResults(RowsInOrder(venue), search.count, search.options, TRUE)

\* ScoreScale * count times the score C33 states for the window `seats` of
\* `row`: the mean priceTier, plus half the distance of the mean from the
\* preferred tier, plus a tenth of the distance between the window's centre
\* (the mean of its first and its last col) and the row's seat count / 2.
StatedScore(seats, row) ==
  LET count == search.count
      sumTier == SumPriceTier(seats)
      twiceCentreDistance == Abs(seats[1].col + seats[Len(seats)].col - Len(row.seats))
  IN  ScoreScale * sumTier
        + (IF search.options.preferredPriceTier # 0
           THEN (ScoreScale * Abs(sumTier - search.options.preferredPriceTier * count)) \div 2
           ELSE 0)
        + (IF search.options.preferCenter
           THEN (ScoreScale * count * twiceCentreDistance) \div 20
           ELSE 0)

\* C33: the score findAdjacentSeatsWithPreferences gives a row's candidate is
\* the window's mean priceTier, plus 0.5 * |meanTier - preferredPriceTier|
\* when preferredPriceTier is given, plus 0.1 * |windowCenter - rowCenter|
\* when preferCenter is given, rowCenter being the row's seat count / 2; with
\* neither option it is the mean priceTier alone.  The candidate returned is
\* the first one with the least such score.
C33_ScoreIsMeanTierPlusPenalties ==
  (ValidSearch /\ search.fn = "findAdjacentSeatsWithPreferences") =>
    /\ \A k \in 1..Len(PreferenceResults) :
         LET r == PreferenceResults[k]
         IN  /\ r.score = StatedScore(r.seats, r.row)
             /\ (search.options.preferredPriceTier = 0 /\ ~search.options.preferCenter)
                  => r.score = ScoreScale * SumPriceTier(r.seats)
    /\ search.result.kind = "seats" =>
         \E k \in 1..Len(PreferenceResults) :
           /\ search.result.seats = PreferenceResults[k].seats
           /\ \A j \in 1..Len(PreferenceResults) :
                LET mine == StatedScore(PreferenceResults[k].seats, PreferenceResults[k].row)
                    other == StatedScore(PreferenceResults[j].seats, PreferenceResults[j].row)
                IN  mine <= other /\ (j < k => mine < other)

\* preferCenter given and two rows give a candidate: the leftmost window of
\* the wide first row is far from the row's centre, and the penalty makes the
\* candidate of the second row win although its mean tier is higher.
C33_Witness ==
  /\ ValidSearch
  /\ search.fn = "findAdjacentSeatsWithPreferences"
  /\ search.options.preferCenter
  /\ Len(PreferenceResults) >= 2
  /\ search.result.kind = "seats"
  /\ search.result.seats = PreferenceResults[2].seats
  /\ SumPriceTier(PreferenceResults[2].seats) > SumPriceTier(PreferenceResults[1].seats)
  /\ Abs(PreferenceResults[1].seats[1].col
           + PreferenceResults[1].seats[search.count].col
           - Len(PreferenceResults[1].row.seats)) > 0

\* The calls of loadVenue made without retry(): all of them while retry() has
\* not been called.
AutomaticReattempts == loader.fetches - 1

\* No call in flight and no retry timer pending: nothing happens until retry().
AtRest == loader.inflight = <<>> /\ loader.timers = 0

\* While no attempt has succeeded and retry() has not been called: at most
\* MAX_RETRIES automatic re-attempts, one call or one timer at a time, and
\* after the failure of the last one the hook rests with the error shown.
C34_AllAttemptsFail ==
  (loader.phase = "mounted" /\ ~loader.manual /\ loader.loadedAt = 0) =>
    /\ AutomaticReattempts = loader.retryCount
    /\ loader.retryCount <= MAX_RETRIES
    /\ Len(loader.inflight) + loader.timers <= 1
    /\ (loader.firstFailed /\ AtRest) =>
         /\ AutomaticReattempts = MAX_RETRIES
         /\ loader.loading = FALSE
         /\ loader.error # ""

\* C34: after the load made on mount has failed, useVenue re-attempts
\* automatically at most MAX_RETRIES times, and when every attempt has failed
\* it rests with loading = false and an error, issuing no fetch until retry().
C34_AtMostMaxRetriesReattempts ==
  (loader.phase = "mounted" /\ ~loader.manual /\ loader.firstFailed) =>
    /\ AutomaticReattempts <= MAX_RETRIES
    /\ (loader.loadedAt = 0 /\ AtRest) =>
         (loader.loading = FALSE /\ loader.error # "")

\* No two seats of a row of the venue have the same col.
UniqueCols ==
  \A row \in VenueRows :
    \A i, j \in 1..Len(row.seats) :
      row.seats[i].col = row.seats[j].col => i = j

\* C35: on a venue whose rows have unique cols, for every count c in 2..8
\* findAdjacentSeats(venue, c) returns seats exactly when
\* getAdjacentSeatsStats(venue).maxConsecutive >= c, and null otherwise.
C35_FoundIffMaxConsecutiveReachesCount ==
  (ValidSearch /\ search.fn = "findAdjacentSeats" /\ UniqueCols)
    => /\ search.result.kind \in {"seats", "null"}
       /\ search.result.kind = "seats"
            <=> getAdjacentSeatsStats(venue).maxConsecutive >= search.count

\* Nothing found for the count asked while a shorter group exists: the case
\* in which the summary suggests the maximum available.
C35_Witness ==
  /\ ValidSearch /\ search.fn = "findAdjacentSeats" /\ UniqueCols
  /\ search.result.kind = "null"
  /\ getAdjacentSeatsStats(venue).maxConsecutive \in 2..(search.count - 1)
  /\ \E row \in VenueRows : Len(row.seats) >= search.count

\* The index focused after an arrow key pressed while index k is focused.
Press(k, direction) ==
  findNearestSeat(allSeats(venue), k, allSeats(venue)[k + 1], direction)

\* The indexes focused one after the other by n presses of 'right' from k.
RECURSIVE RightPresses(_, _)
RightPresses(k, n) ==
  IF n = 0 THEN <<>>
  ELSE <<Press(k, "right")>> \o RightPresses(Press(k, "right"), n - 1)

\* The flattening-order indexes of the seats drawn in pixel-row y.
RowIndexes(y) ==
  {j - 1 : j \in {i \in 1..Len(allSeats(venue)) : allSeats(venue)[i].y = y}}

\* C36: 'left' and 'right' are inverse moves: 'right' then 'left', or 'left'
\* then 'right', returns to the seat it started from, across the wraparound
\* too; and as many presses of 'right' as the pixel-row has seats visit every
\* seat of the row exactly once and end on the seat they started from.
C36_LeftRightAreInverseMoves ==
  /\ lastOp.kind = "right" => Press(focusedSeatIndex, "left") = lastOp.outcome
  /\ lastOp.kind = "left" => Press(focusedSeatIndex, "right") = lastOp.outcome
  /\ \A k \in 0..(Len(allSeats(venue)) - 1) :
       LET row == RowIndexes(allSeats(venue)[k + 1].y)
           n == Cardinality(row)
           visited == RightPresses(k, n)
       IN  /\ Press(Press(k, "right"), "left") = k
           /\ Press(Press(k, "left"), "right") = k
           /\ visited[n] = k
           /\ {visited[i] : i \in 1..n} = row

\* 'left' pressed on the first seat of a pixel-row of three seats that runs
\* across both sections: the focus is on the last seat of the row, from which
\* 'right' wraps back.
C36_Witness ==
  /\ lastOp.kind = "left"
  /\ Cardinality(RowXs(SeatBefore.y)) = 3
  /\ SeatBefore.x = Least(RowXs(SeatBefore.y))
  /\ SeatNow.x = Greatest(RowXs(SeatBefore.y))
  /\ SeatNow.y = SeatBefore.y
  /\ focusedSeatIndex < lastOp.outcome

\* No two members of the Selection Set have the same id.
NoTwoMembersShareId ==
  \A i, j \in 1..Len(selectedSeats) :
    selectedSeats[i].id = selectedSeats[j].id => i = j

\* C37: when the Selection Set is empty at startup, or restored with pairwise
\* distinct ids, then after any sequence of toggleSeat and clearSelection
\* calls no two of its members share an id.
C37_MemberIdsStayDistinct == NoTwoMembersShareId => []NoTwoMembersShareId

\* The first event after a restore of at least three members with distinct
\* ids added a seat.
C37_Witness ==
  /\ NoTwoMembersShareId
  /\ lastOp = Op("toggle", "added")
  /\ Len(selectedSeats) >= 4
  /\ events = 1

\* The tiers both price tables list.
KnownTiers == 1..4

\* The total of the summary is the sum over the known tiers of the number of
\* selected seats of the tier times the summary's price of the tier: seats
\* of an unknown tier add nothing.
C38_SubtotalIsSumOfTierPrices ==
  LET OfTier(t) == {i \in 1..Len(selectedSeats) : priceTier(selectedSeats[i]) = t}
      RECURSIVE Total(_)
      Total(T) ==
        IF T = {} THEN 0
        ELSE LET t == CHOOSE u \in T : TRUE
             IN  Cardinality(OfTier(t)) * PRICE_TIERS_Summary[t] + Total(T \ {t})
  IN  subtotal(selectedSeats) = Total(KnownTiers)

\* C38: for every selected seat of a tier in 1..4 the price in the seat
\* map's accessibility label is the price the summary charges for the seat,
\* and the subtotal is the sum of these per-tier prices over the selected
\* seats, a seat of an unknown tier contributing 0.
C38_AnnouncedPriceIsChargedPrice ==
  /\ \A i \in 1..Len(selectedSeats) :
       priceTier(selectedSeats[i]) \in KnownTiers
         => ariaPrice(selectedSeats[i]) = Dollars(chargedPrice(selectedSeats[i]))
  /\ C38_SubtotalIsSumOfTierPrices


=============================================================================
